---- MODULE Spec2Model ----
(***************************************************************************)
(* Push-notification dispatch and read-through caching layer.              *)
(*                                                                         *)
(* The module holds several specifications over one set of variables:      *)
(*   SpecDispatch  NotificationService.sendNotification / sendToDevices    *)
(*                 with the four provider adapters and the token store     *)
(*   SpecCleanup   the token clean-up cron (cleanupInvalidTokens)          *)
(*   SpecCache     the participants / photo-URL / album read-through caches*)
(*   SpecRace      getEventParticipants await by await, beside mutations   *)
(*   SpecQueue     processWebhookQueue, runs overlapping                   *)
(*   SpecNotify    processNotificationQueue over the dispatch              *)
(* and smaller ones for registration, bulk sends, the cache-layer limiter, *)
(* signed URLs, paging and repeated dispatches.                            *)
(* A specification leaves the variables of the others unchanged.           *)
(***************************************************************************)
EXTENDS Integers, Sequences, FiniteSets, TLC

VARIABLES
  now,                \* Date.now(), milliseconds
  push_tokens,        \* table push_tokens: token -> row
  rateLimits,         \* NotificationService.rateLimits (Map key -> {count, resetTime})
  notification_history, \* table notification_history (rows, in insertion order)
  call,               \* one record per in-flight sendNotification call
  started,            \* number of sendNotification calls begun so far
  dispatchLog,        \* history: per (userId, type), what its dispatches did
  token_times,        \* push_tokens columns last_validated_at, deactivated_at
  cleanup,            \* the run of the token clean-up cron
  redis,              \* the Redis cache: key -> entry
  event_participants, \* table event_participants: the event's rows per user id
  albums,             \* table albums: album id -> row
  lastOp,             \* the cache-layer operation that returned last
  ops,                \* number of cache-layer operations so far
  token_rows,         \* table push_tokens as rows in insertion order (registration)
  reg,                \* one record per in-flight storePushToken call
  registrations,      \* number of storePushToken calls begun so far
  bulk,               \* the sendBulkNotification call
  counter,            \* the Redis key rate_limit:participants:<identifier>
  limiter,            \* the checkRateLimit calls in flight and the last verdict
  paging,             \* table photos and the last fetchEventPhotos call
  token_failures,     \* history: failed deliveries per token, where kept
  reader,             \* the getEventParticipants call in flight, await by await
  webhook_queue,      \* table webhook_queue: row id -> row
  notification_queue, \* table notification_queue: row id -> row
  run                 \* one record per queue-processor run in flight

dispatchVars ==
  <<now, push_tokens, rateLimits, notification_history, call, started, dispatchLog>>

cleanupVars == <<token_times, cleanup>>

cacheVars == <<redis, event_participants, albums, lastOp, ops>>

registerVars == <<token_rows, reg, registrations>>

limiterVars == <<counter, limiter>>

pagingVars == <<paging>>

historyVars == <<token_failures>>

raceVars == <<reader>>

queueVars == <<webhook_queue, notification_queue, run>>

\* the components that no dispatch, clean-up, cache, registration, bulk,
\* limiter or paging step touches
laterVars == <<raceVars, queueVars>>

\* what the dispatch leaves alone: the other components' state, and but for
\* sendToDevices the failure history
notDispatchState == <<token_times, cleanup, redis, event_participants, albums,
                      lastOp, ops, registerVars, bulk, limiterVars, pagingVars>>

notDispatchVars == <<notDispatchState, historyVars, laterVars>>

\* what the clean-up cron leaves alone
notCleanupVars == <<rateLimits, call, started, dispatchLog, redis,
                    event_participants, albums, lastOp, ops, registerVars, bulk,
                    limiterVars, pagingVars, historyVars, laterVars>>

\* what the cache layer leaves alone
notCacheVars == <<push_tokens, rateLimits, notification_history, call, started,
                  dispatchLog, token_times, cleanup, registerVars, bulk,
                  limiterVars, pagingVars, historyVars, laterVars>>

\* what the token registration leaves alone
notRegisterVars == <<dispatchVars, cleanupVars, cacheVars, bulk, limiterVars,
                     pagingVars, historyVars, laterVars>>

vars ==
  <<now, push_tokens, rateLimits, notification_history, call, started, dispatchLog,
    token_times, cleanup, redis, event_participants, albums, lastOp, ops,
    token_rows, reg, registrations, bulk, counter, limiter, paging,
    token_failures, reader, webhook_queue, notification_queue, run>>

(***************************************************************************)
(* Bounds of the model                                                     *)
(***************************************************************************)
\* sendNotification calls begun in one behaviour
MaxCalls == 3
\* the clock stops at MaxTicks ticks of TickStep milliseconds
MaxTicks == 2
TickStep == 40000
\* The adapters' chunk sizes, scaled down so that a batch of two tokens
\* spans two chunks.  The code has 100 (Expo SDK chunk), 500 (fcm.js:113)
\* and 100 (apns.js:101).
ExpoChunkSize == 1
FcmBatchSize == 1
ApnsBatchSize == 1

(***************************************************************************)
(* Values                                                                  *)
(***************************************************************************)
Undefined == "undefined"

Users == {"u1", "u2"}

\* notification types used by the model (a subset of the seven templates)
Types == {"event_live", "peak_activity"}

\* data fields of those types and the values a caller may give them
Fields == {"eventName", "recentPhotoCount"}
FieldValues == {"missing", "falsy", "truthy"}

\* token strings
ExpoA == "ExponentPushToken[a]"
ExpoB == "ExponentPushToken[b]"
ExpoBad == "ExponentPushTokenBad"
Tokens == {ExpoA, ExpoB, ExpoBad, "dev1", "dev2"}

\* the order the store returns rows in
TokenOrder == <<ExpoA, ExpoB, ExpoBad, "dev1", "dev2">>

Platforms == {"android", "ios", "web"}

Slots == {1, 2}


(***************************************************************************)
(* Generic helpers                                                         *)
(***************************************************************************)
RECURSIVE SeqSum(_)
SeqSum(s) == IF Len(s) = 0 THEN 0 ELSE Head(s) + SeqSum(Tail(s))

RECURSIVE Chunks(_, _)
\* tokens.slice(i, i + batchSize) for i = 0, batchSize, ...
Chunks(s, n) ==
  IF Len(s) = 0 THEN <<>>
  ELSE IF Len(s) <= n THEN <<s>>
  ELSE <<SubSeq(s, 1, n)>> \o Chunks(SubSeq(s, n + 1, Len(s)), n)

Range(s) == {s[i] : i \in 1..Len(s)}

CountIn(codes, S) == Cardinality({i \in 1..Len(codes) : codes[i] \in S})

(***************************************************************************)
(* What a push provider can answer.  A chunk call either rejects (throws)  *)
(* or answers one code per token, in the order sent.                       *)
(*   ok            accepted                                                *)
(*   unregistered  DeviceNotRegistered / registration-token-not-registered *)
(*                 / Unregistered                                          *)
(*   invalid       invalid-registration-token / BadDeviceToken             *)
(*   transient     MessageRateExceeded / quota-exceeded / TooManyRequests  *)
(*   invalid_verbatim (FCM only) invalid-registration-token whose error    *)
(*                 message repeats the code                                *)
(***************************************************************************)
Codes == {"ok", "unregistered", "invalid", "transient"}
ExpoCodes == {"ok", "unregistered", "transient"}
FcmV1Codes == Codes \cup {"invalid_verbatim"}
InvalidCodes == {"unregistered", "invalid", "invalid_verbatim"}
TransientCodes == {"transient"}

ChunkResponses(len, codeSet) ==
  {[threw |-> TRUE, codes |-> <<>>]} \cup
  {[threw |-> FALSE, codes |-> cs] : cs \in [1..len -> codeSet]}

\* every answer the provider can give to the chunks of one batch
BatchResponses(chunks, codeSet) ==
  IF Len(chunks) = 0 THEN {<<>>}
  ELSE LET maxLen == Len(chunks[1])
           any == UNION {ChunkResponses(l, codeSet) : l \in 1..maxLen}
       IN {r \in [1..Len(chunks) -> any] :
             \A i \in 1..Len(chunks) :
               r[i].threw \/ Len(r[i].codes) = Len(chunks[i])}

\* index of the first chunk whose call threw, or 0
FirstThrow(resp) ==
  IF \E i \in 1..Len(resp) : resp[i].threw
  THEN CHOOSE i \in 1..Len(resp) :
         resp[i].threw /\ \A j \in 1..(i - 1) : ~resp[j].threw
  ELSE 0

(***************************************************************************)
(* templates.js                                                            *)
(***************************************************************************)
RequiredFields(type) ==
  CASE type = "photo_liked" -> {"eventName", "likeCount"}
    [] type = "gallery_unlocked" -> {"eventName"}
    [] type = "community_milestone" -> {"eventName", "milestone"}
    [] type = "event_live" -> {"eventName"}
    [] type = "event_starting" -> {"eventName", "minutesUntilStart"}
    [] type = "event_reminder" -> {"eventName", "hoursUntilStart"}
    [] type = "peak_activity" -> {"eventName", "recentPhotoCount"}
    [] OTHER -> {}

\* validateNotificationData: TRUE when it returns, FALSE when it throws.
\* A field counts as missing when !data[field], so a falsy value too.
validateNotificationData(type, data) ==
  \A f \in RequiredFields(type) :
    f \in DOMAIN data /\ data[f] = "truthy"

TemplateTypes ==
  {"photo_liked", "gallery_unlocked", "community_milestone", "event_live",
   "event_starting", "event_reminder", "peak_activity"}

\* buildNotification: TRUE when it returns, FALSE when it throws
\* (Unknown notification type)
buildNotification(type) == type \in TemplateTypes

\* DEFAULT_SETTINGS[type]?.enabled ?? true: every configured type is enabled
DefaultEnabled(type) == TRUE

(***************************************************************************)
(* supabase.js                                                             *)
(***************************************************************************)
NoRow == [user_id |-> Undefined, platform |-> Undefined, is_active |-> FALSE,
          token_type |-> Undefined, device_token |-> Undefined, exists |-> FALSE]

\* the timestamp columns of a row that has neither
NoTimes == [validated |-> FALSE, last_validated_at |-> 0,
            deactivated |-> FALSE, deactivated_at |-> 0]

\* getUserPushTokens: the active rows of the user, projected on
\* (token, platform, device_id); an empty list on a store error
getUserPushTokens(table, userId, storeError) ==
  IF storeError THEN <<>>
  ELSE LET keep(t) == table[t].exists /\ table[t].user_id = userId
                        /\ table[t].is_active
           row(t) == [token |-> t, platform |-> table[t].platform,
                      device_token |-> Undefined, token_type |-> Undefined]
           F[i \in 0..Len(TokenOrder)] ==
             IF i = 0 THEN <<>>
             ELSE IF keep(TokenOrder[i]) THEN Append(F[i - 1], row(TokenOrder[i]))
                  ELSE F[i - 1]
       IN F[Len(TokenOrder)]

\* the row getUserNotificationPreferences returns when the query fails
DefaultPreferences ==
  [photo_likes |-> TRUE, community_activity |-> TRUE, event_updates |-> TRUE,
   peak_activity |-> TRUE, batch_mode |-> FALSE]

getUserNotificationPreferences(row, storeError) ==
  IF storeError THEN DefaultPreferences ELSE row

\* a policy evaluation that fails closed
shouldSendNotificationFailClosed(rpc) ==
  rpc = "true"

\* shouldSendNotification: the rpc answers true or false, reports an error
\* or throws; the last two default to allowing
shouldSendNotification(rpc) ==
  CASE rpc = "true" -> TRUE
    [] rpc = "false" -> FALSE
    [] rpc = "error" -> TRUE
    [] rpc = "throw" -> TRUE

\* deactivatePushToken: update ... set is_active = false where token = t
deactivatePushToken(table, t, storeError) ==
  IF storeError \/ t \notin DOMAIN table \/ ~table[t].exists THEN table
  ELSE [table EXCEPT ![t].is_active = FALSE]


(***************************************************************************)
(* Provider adapters.  Each takes the tokens of its bucket and the         *)
(* provider's answer to the chunks it sends, and returns the adapter's     *)
(* result object.                                                          *)
(***************************************************************************)
\* token.startsWith('ExponentPushToken')
StartsWithExponentPushToken(t) == t \in {ExpoA, ExpoB, ExpoBad}

\* Expo.isExpoPushToken(token): ExponentPushToken[...] with its brackets
IsExpoPushToken(t) == t \in {ExpoA, ExpoB}

\* --- expo-push: sendBatchExpoPushNotifications ---------------------------
ExpoValidTokens(tokens) == SelectSeq(tokens, IsExpoPushToken)

\* the chunks handed to expo.sendPushNotificationsAsync
ExpoWireChunks(tokens) == Chunks(ExpoValidTokens(tokens), ExpoChunkSize)

\* tickets.forEach of one chunk: the tokens pushed on tokensToDeactivate.
\* messages.findIndex(m => m === chunk[index]) is the message's place in the
\* whole batch, and validTokens[tokenIndex] the token at that place.
\* the ticket's index within its chunk taken for the index within the batch
ExpoChunkDeactivateLocalIndex(validTokens, chunkNo, codes) ==
  {validTokens[j] : j \in {k \in 1..Len(codes) : codes[k] = "unregistered"}}

ExpoChunkDeactivate(validTokens, chunkNo, codes) ==
  {validTokens[(chunkNo - 1) * ExpoChunkSize + j] :
     j \in {k \in 1..Len(codes) : codes[k] = "unregistered"}}

sendBatchExpoPushNotifications(tokens, resp) ==
  LET validTokens == ExpoValidTokens(tokens)
      chunks == ExpoWireChunks(tokens)
      n == Len(chunks)
  IN IF Len(validTokens) = 0
     THEN [success |-> FALSE, successCount |-> 0, failureCount |-> 0,
           tokensToDeactivate |-> {}]
     ELSE [success |-> TRUE,
           successCount |->
             SeqSum([i \in 1..n |->
               IF resp[i].threw THEN 0 ELSE CountIn(resp[i].codes, {"ok"})]),
           failureCount |->
             SeqSum([i \in 1..n |->
               IF resp[i].threw THEN Len(chunks[i])
               ELSE CountIn(resp[i].codes, ExpoCodes \ {"ok"})]),
           tokensToDeactivate |->
             UNION {IF resp[i].threw THEN {}
                    ELSE ExpoChunkDeactivate(validTokens, i, resp[i].codes) :
                    i \in 1..n}]

\* --- fcm-v1.js: sendBatchFCMv1Notifications ------------------------------
FcmV1ValidTokens(tokens) ==
  SelectSeq(tokens, LAMBDA t : ~StartsWithExponentPushToken(t))

\* one sendEach call for all messages
FcmV1WireChunks(tokens) ==
  IF Len(FcmV1ValidTokens(tokens)) = 0 THEN <<>>
  ELSE <<FcmV1ValidTokens(tokens)>>

\* resp.error?.message of one answer: whether it contains
\* 'invalid-registration'
MessageIncludesInvalidRegistration(code) == code = "invalid_verbatim"

sendBatchFCMv1Notifications(tokens, resp) ==
  LET validTokens == FcmV1ValidTokens(tokens)
  IN IF Len(validTokens) = 0
     THEN [threw |-> FALSE, successCount |-> 0, failureCount |-> Len(tokens),
           results |-> [i \in 1..Len(tokens) |->
                          [success |-> FALSE, code |-> "transient",
                           token |-> Undefined]]]
     ELSE IF resp[1].threw
     THEN [threw |-> TRUE, successCount |-> 0, failureCount |-> 0,
           results |-> <<>>]
     ELSE [threw |-> FALSE,
           successCount |-> CountIn(resp[1].codes, {"ok"}),
           failureCount |-> CountIn(resp[1].codes, FcmV1Codes \ {"ok"}),
           results |-> [i \in 1..Len(validTokens) |->
                          [success |-> resp[1].codes[i] = "ok",
                           code |-> resp[1].codes[i],
                           token |-> validTokens[i]]]]

\* --- fcm.js: sendBatchFCMNotifications -----------------------------------
FcmWireChunks(tokens) == Chunks(tokens, FcmBatchSize)

\* the loop stops at the first sendMulticast that throws: the outer catch
\* returns {success: false}
sendBatchFCMNotifications(tokens, resp) ==
  LET chunks == FcmWireChunks(tokens)
  IN IF FirstThrow(resp) # 0
     THEN [success |-> FALSE, results |-> <<>>]
     ELSE [success |-> TRUE,
           results |-> [i \in 1..Len(chunks) |->
             [successCount |-> CountIn(resp[i].codes, {"ok"}),
              failureCount |-> CountIn(resp[i].codes, Codes \ {"ok"})]]]

\* --- apns.js: sendBatchAPNSNotifications ---------------------------------
ApnsWireChunks(tokens) == Chunks(tokens, ApnsBatchSize)

\* failure.error of an answer code
ApnsError(code) ==
  CASE code = "invalid" -> "BadDeviceToken"
    [] code = "unregistered" -> "Unregistered"
    [] code = "transient" -> "TooManyRequests"
    [] OTHER -> "InternalServerError"

sendBatchAPNSNotifications(tokens, resp) ==
  LET chunks == ApnsWireChunks(tokens)
  IN IF FirstThrow(resp) # 0
     THEN [success |-> FALSE, results |-> <<>>]
     ELSE [success |-> TRUE,
           results |-> [i \in 1..Len(chunks) |->
             [successCount |-> CountIn(resp[i].codes, {"ok"}),
              failureCount |-> CountIn(resp[i].codes, Codes \ {"ok"}),
              failed |-> {[device |-> chunks[i][j],
                           error |-> ApnsError(resp[i].codes[j])] :
                          j \in {k \in 1..Len(chunks[i]) :
                                   resp[i].codes[k] # "ok"}}]]]


(***************************************************************************)
(* notification-service.js: rate limiting                                  *)
(***************************************************************************)
\* the 1 minute window of isRateLimited / updateRateLimit
RateWindow == 60000

maxRequests(type) ==
  CASE type = "photo_liked" -> 10
    [] type = "event_live" -> 1
    [] type = "event_starting" -> 1
    [] type = "community_milestone" -> 3
    [] type = "peak_activity" -> 2
    [] OTHER -> 5

RateKey(userId, type) == <<userId, type>>

NoLimits == [exists |-> FALSE, count |-> 0, resetTime |-> 0]

\* this.rateLimits.get(key) || { count: 0, resetTime: now + 60000 }
LimitsOrFresh(rl, key, t) ==
  IF rl[key].exists THEN rl[key]
  ELSE [exists |-> TRUE, count |-> 0, resetTime |-> t + RateWindow]

\* isRateLimited: "Reset if window expired"
ResetIfExpired(limits, t) ==
  IF t > limits.resetTime
  THEN [limits EXCEPT !.count = 0, !.resetTime = t + RateWindow]
  ELSE limits

\* the check with > in place of >=
isRateLimitedAbove(rl, userId, type, t) ==
  ResetIfExpired(LimitsOrFresh(rl, RateKey(userId, type), t), t).count
    > maxRequests(type)

isRateLimited(rl, userId, type, t) ==
  ResetIfExpired(LimitsOrFresh(rl, RateKey(userId, type), t), t).count
    >= maxRequests(type)

\* a check that counts the call it turns away
RateLimitsAfterCheckCounting(rl, userId, type, t) ==
  LET key == RateKey(userId, type)
      limits == ResetIfExpired(LimitsOrFresh(rl, key, t), t)
  IN IF limits.count >= maxRequests(type)
     THEN [rl EXCEPT ![key] = [limits EXCEPT !.count = limits.count + 1]]
     ELSE IF rl[key].exists THEN [rl EXCEPT ![key] = ResetIfExpired(rl[key], t)]
     ELSE rl

\* isRateLimited resets the object it got from the Map in place, so a stored
\* entry keeps the reset; a fresh object is dropped
RateLimitsAfterCheck(rl, userId, type, t) ==
  LET key == RateKey(userId, type)
  IN IF rl[key].exists THEN [rl EXCEPT ![key] = ResetIfExpired(rl[key], t)]
     ELSE rl

\* an update without this.rateLimits.set(key, limits): a key that has no
\* entry yet gets none
updateRateLimitWithoutSet(rl, userId, type, t) ==
  LET key == RateKey(userId, type)
      limits == LimitsOrFresh(rl, key, t)
  IN IF ~rl[key].exists THEN rl
     ELSE [rl EXCEPT ![key] =
             IF t > limits.resetTime
             THEN [limits EXCEPT !.count = 1, !.resetTime = t + RateWindow]
             ELSE [limits EXCEPT !.count = limits.count + 1]]

\* updateRateLimit: the window is reset when it has expired, the call is
\* counted and the entry is stored
updateRateLimit(rl, userId, type, t) ==
  LET key == RateKey(userId, type)
      limits == LimitsOrFresh(rl, key, t)
  IN [rl EXCEPT ![key] =
        IF t > limits.resetTime
        THEN [limits EXCEPT !.count = 1, !.resetTime = t + RateWindow]
        ELSE [limits EXCEPT !.count = limits.count + 1]]

(***************************************************************************)
(* notification-service.js: preferences                                    *)
(***************************************************************************)
\* type.replace('_', ''): the first underscore removed
ReplaceUnderscore(type) ==
  CASE type = "photo_liked" -> "photoliked"
    [] type = "gallery_unlocked" -> "galleryunlocked"
    [] type = "community_milestone" -> "communitymilestone"
    [] type = "event_live" -> "eventlive"
    [] type = "event_starting" -> "eventstarting"
    [] type = "event_reminder" -> "eventreminder"
    [] type = "peak_activity" -> "peakactivity"
    [] OTHER -> type

\* preferences[type.replace('_', '')] ?? DEFAULT_SETTINGS[type]?.enabled ?? true
typeEnabled(preferences, type) ==
  IF ReplaceUnderscore(type) \in DOMAIN preferences
  THEN preferences[ReplaceUnderscore(type)]
  ELSE DefaultEnabled(type)

\* the row of notification_preferences has a column of the type's name and
\* the column is false
StoredDisabled(row, type) ==
  type \in DOMAIN row /\ ~row[type]

\* the preference rows a user may have stored
PreferenceRows ==
  {[photo_likes |-> a, community_activity |-> a, event_updates |-> b,
    peak_activity |-> b, batch_mode |-> FALSE] : a, b \in BOOLEAN}

(***************************************************************************)
(* notification-service.js: sendToDevices                                  *)
(***************************************************************************)
BucketOrder == <<"expo", "fcm_v1", "fcm", "ios">>

\* the platform looked at before the token's prefix
BucketOfPlatformFirst(t) ==
  IF t.platform = "android"
    THEN IF t.device_token # Undefined \/ t.token_type = "fcm_v1"
         THEN "fcm_v1" ELSE "fcm"
  ELSE IF t.platform = "ios" THEN "ios"
  ELSE IF StartsWithExponentPushToken(t.token) THEN "expo"
  ELSE "none"

\* "Separate tokens by type"
BucketOf(t) ==
  IF StartsWithExponentPushToken(t.token) THEN "expo"
  ELSE IF t.platform = "android"
       THEN IF t.device_token # Undefined \/ t.token_type = "fcm_v1"
            THEN "fcm_v1" ELSE "fcm"
  ELSE IF t.platform = "ios" THEN "ios"
  ELSE "none"

\* the token strings handed to the adapter of bucket b
BucketTokens(rows, b) ==
  LET mine == SelectSeq(rows, LAMBDA t : BucketOf(t) = b)
  IN [i \in 1..Len(mine) |->
        IF b = "fcm_v1" /\ mine[i].device_token # Undefined
        THEN mine[i].device_token ELSE mine[i].token]

\* the chunks the adapter of bucket b sends for these tokens
WireChunks(b, tokens) ==
  CASE b = "expo" -> ExpoWireChunks(tokens)
    [] b = "fcm_v1" -> FcmV1WireChunks(tokens)
    [] b = "fcm" -> FcmWireChunks(tokens)
    [] b = "ios" -> ApnsWireChunks(tokens)

CodesOf(b) ==
  CASE b = "expo" -> ExpoCodes
    [] b = "fcm_v1" -> FcmV1Codes
    [] OTHER -> Codes

\* the chunks whose provider call is made, given the provider's answers:
\* the Expo loop catches per chunk and goes on; the FCM and APNs loops sit in
\* one try and stop at the first chunk that throws
ChunksCalled(b, resp) ==
  IF b = "expo" \/ FirstThrow(resp) = 0 THEN 1..Len(resp)
  ELSE 1..FirstThrow(resp)

EmptyResults == [total |-> 0, successful |-> 0, failed |-> 0, invalidTokens |-> {}]

AddFailed(results, n) == [results EXCEPT !.failed = results.failed + n]

ExpoBucket(results, tokens, resp) ==
  LET expoResult == sendBatchExpoPushNotifications(tokens, resp)
  IN IF expoResult.success
     THEN [results EXCEPT
             !.successful = results.successful + expoResult.successCount,
             !.failed = results.failed + expoResult.failureCount,
             !.invalidTokens = results.invalidTokens
                                 \cup expoResult.tokensToDeactivate]
     ELSE AddFailed(results, Len(tokens))

FcmV1Bucket(results, tokens, resp) ==
  LET fcmV1Result == sendBatchFCMv1Notifications(tokens, resp)
  IN IF fcmV1Result.threw THEN AddFailed(results, Len(tokens))
     ELSE IF fcmV1Result.successCount # 0
     THEN [results EXCEPT
             !.successful = results.successful + fcmV1Result.successCount,
             !.failed = results.failed + fcmV1Result.failureCount,
             !.invalidTokens = results.invalidTokens \cup
                {fcmV1Result.results[i].token :
                   i \in {k \in 1..Len(fcmV1Result.results) :
                     /\ ~fcmV1Result.results[k].success
                     /\ MessageIncludesInvalidRegistration(
                          fcmV1Result.results[k].code)}}]
     ELSE AddFailed(results, Len(tokens))

FcmBucket(results, tokens, resp) ==
  LET fcmResult == sendBatchFCMNotifications(tokens, resp)
  IN IF fcmResult.success
     THEN [results EXCEPT
             !.successful = results.successful +
                SeqSum([i \in 1..Len(fcmResult.results) |->
                          fcmResult.results[i].successCount]),
             !.failed = results.failed +
                SeqSum([i \in 1..Len(fcmResult.results) |->
                          fcmResult.results[i].failureCount])]
     ELSE AddFailed(results, Len(tokens))

ApnsBucket(results, tokens, resp) ==
  LET apnsResult == sendBatchAPNSNotifications(tokens, resp)
  IN IF apnsResult.success
     THEN [results EXCEPT
             !.successful = results.successful +
                SeqSum([i \in 1..Len(apnsResult.results) |->
                          apnsResult.results[i].successCount]),
             !.failed = results.failed +
                SeqSum([i \in 1..Len(apnsResult.results) |->
                          apnsResult.results[i].failureCount]),
             !.invalidTokens = results.invalidTokens \cup
                {f.device : f \in
                   {g \in UNION {apnsResult.results[i].failed :
                                   i \in 1..Len(apnsResult.results)} :
                      g.error = "BadDeviceToken" \/ g.error = "Unregistered"}}]
     ELSE AddFailed(results, Len(tokens))

\* one "if (xTokens.length > 0) { try { ... } catch { ... } }" block
BucketResults(results, b, tokens, resp) ==
  CASE b = "expo" -> ExpoBucket(results, tokens, resp)
    [] b = "fcm_v1" -> FcmV1Bucket(results, tokens, resp)
    [] b = "fcm" -> FcmBucket(results, tokens, resp)
    [] b = "ios" -> ApnsBucket(results, tokens, resp)

\* the buckets after position i that hold tokens
BucketsAfter(rows, i) ==
  {j \in (i + 1)..Len(BucketOrder) : Len(BucketTokens(rows, BucketOrder[j])) > 0}

Min(S) == CHOOSE x \in S : \A y \in S : x <= y


\* one try around all the buckets: a throw ends the sends
BucketsNoneAfterThrow(rows, i, lastThrew) ==
  IF lastThrew THEN {} ELSE BucketsAfter(rows, i)

\* Each bucket has its own try/catch, so whether the last bucket's send threw
\* does not matter to the buckets still to be sent.
BucketsStillToSend(rows, i, lastThrew) == BucketsAfter(rows, i)

\* whether the adapter call of bucket b throws into sendToDevices: only the
\* FCM v1 adapter rethrows; the others catch and return {success: false}
AdapterThrows(b, tokens, resp) ==
  b = "fcm_v1" /\ sendBatchFCMv1Notifications(tokens, resp).threw

(***************************************************************************)
(* redis.js and the data of the cache layer                                *)
(***************************************************************************)
Event == "e1"
Album == "a1"

\* the creator of the event, a participant, and no user (anonymous)
Organizer == "org"
Readers == {Undefined, Organizer, "u1"}

\* a cache key, by its segments; "" where a family has no such segment
Key(family, id, sortBy, role, mode, page, limit) ==
  [family |-> family, id |-> id, sortBy |-> sortBy, role |-> role, mode |-> mode,
   page |-> page, limit |-> limit]

\* `participants:${eventId}:page:${page}:${limit}`
ParticipantsKey(eventId, page, limit) ==
  Key("participants", eventId, "", "", "", page, limit)

\* `participants:${eventId}:metadata`
ParticipantsMetadataKey(eventId) ==
  Key("participants", eventId, "", "", "", "metadata", "")

\* `album:${eventId}:page:${page}:limit:${limit}`
AlbumsKey(eventId, page, limit) == Key("album", eventId, "", "", "", page, limit)

\* the photo-URL key of the version that had no role segment
PhotoKeyWithoutRole(eventId, sortBy, userRole, moderationMode, page, limit) ==
  Key("event_photos", eventId, sortBy, "", moderationMode, page, limit)

\* `event_photos:${eventId}:${sortBy}:${userRole}:${moderationMode}:${page}:${limit}`
PhotoKey(eventId, sortBy, userRole, moderationMode, page, limit) ==
  Key("event_photos", eventId, sortBy, userRole, moderationMode, page, limit)

Roles == {"anonymous", "organizer", "participant"}

\* storage paths of photos
Paths == {"p1", "p2", "p3"}

\* two storage paths that differ in one character, a space and an underscore
SpacedPaths == {"a b", "a_b"}

\* the order in which a caller's array lists the paths
PathOrder == <<"p1", "p2", "p3", "a b", "a_b">>

\* a path character by character
Spelling(path) ==
  CASE path = "p1" -> <<"p", "1">>
    [] path = "p2" -> <<"p", "2">>
    [] path = "p3" -> <<"p", "3">>
    [] path = "a b" -> <<"a", " ", "b">>
    [] path = "a_b" -> <<"a", "_", "b">>

\* the characters of the paths that the class [a-zA-Z0-9.\-_/] holds
SafeChars == {"a", "b", "p", "1", "2", "3", "_"}

\* cleanPath: path.replace(/[^a-zA-Z0-9.\-_/]/g, '_'), every character
\* outside the class becomes an underscore
cleanPath(path) ==
  LET chars == Spelling(path)
      cleaned == [i \in 1..Len(chars) |->
                    IF chars[i] \in SafeChars THEN chars[i] ELSE "_"]
  IN CHOOSE q \in Range(PathOrder) : Spelling(q) = cleaned

\* `photo_urls:${cleanPath(path)}`: the signed URL of one photo
PhotoUrlKey(path) == Key("photo_urls", cleanPath(path), "", "", "", "", "")

CacheKeys ==
  {ParticipantsKey(Event, "1", "20"), ParticipantsMetadataKey(Event),
   AlbumsKey(Event, "1", "50")}
  \cup {PhotoKey(Event, "most_liked", r, "moderated", "1", "50") : r \in Roles}
  \cup {PhotoKeyWithoutRole(Event, "most_liked", "", "moderated", "1", "50")}
  \cup {PhotoUrlKey(path) : path \in Range(PathOrder)}

\* a cached value: what was fetched, and (for the properties) for which role
NoPayload == [items |-> {}, by |-> ""]

NoEntry == [present |-> FALSE, payload |-> NoPayload, cached_at |-> 0,
            expires_at |-> 0]

\* client.get(key): Redis drops a key ttlSeconds after setex; the fallback
\* null when the operation fails
getCachedData(store, key, t, redisDown) ==
  IF redisDown \/ ~store[key].present \/ t >= store[key].expires_at
  THEN [found |-> FALSE, payload |-> NoPayload, is_expired |-> FALSE]
  ELSE [found |-> TRUE, payload |-> store[key].payload, is_expired |-> FALSE]

\* getWithAge: cache_ttl = max(0, floor((expires_at - now) / 1000)) and
\* is_expired = cache_ttl <= 0
getWithAge(store, key, t, redisDown) ==
  LET data == getCachedData(store, key, t, redisDown)
      ttl == IF (store[key].expires_at - t) \div 1000 > 0
             THEN (store[key].expires_at - t) \div 1000 ELSE 0
  IN IF data.found THEN [data EXCEPT !.is_expired = ttl <= 0] ELSE data

\* setWithAutoExpiry -> setCachedData: setex(key, ttlSeconds, ...), or nothing
\* when the operation fails
setWithAutoExpiry(store, key, payload, ttlSeconds, t, redisDown) ==
  IF redisDown THEN store
  ELSE [store EXCEPT ![key] = [present |-> TRUE, payload |-> payload,
                               cached_at |-> t,
                               expires_at |-> t + ttlSeconds * 1000]]

\* the keys a pattern `${family}:${id}*` selects
KeysUnder(family, id) == {k \in CacheKeys : k.family = family /\ k.id = id}

\* deleteCachePattern: keys(pattern) then del, or nothing (fallback 0) when
\* the operation fails
deleteCachePattern(store, family, id, redisDown) ==
  IF redisDown THEN store
  ELSE [k \in CacheKeys |-> IF k \in KeysUnder(family, id) THEN NoEntry
                            ELSE store[k]]

\* an entry a get would find
Cached(store, key, t) == store[key].present /\ t < store[key].expires_at

\* the cache layer's record of the operation that returned last
NoOp ==
  [op |-> "none", role |-> "", outcome |-> "none", payload |-> NoPayload,
   cached |-> FALSE, stale |-> FALSE,
   \* history variables, read only by the properties
   dbFailed |-> FALSE,   \* the relational store failed during the operation
   hadEntry |-> FALSE,   \* the read's key had a readable entry when it began
   mutated |-> FALSE,    \* the operation changed the relational store
   expiring |-> FALSE,   \* a URL it served from a cache was expired or within
                         \* the buffer when it returned
   forced |-> FALSE,     \* the read was made with forceRefresh
   user |-> "",          \* the user id addParticipant was called with
   dup |-> FALSE,        \* that user had a row of the event when it was called
   message |-> "",       \* the message of the object addParticipant returned
   asked |-> {},         \* the paths batchGenerateSignedUrls was called with
   failed |-> {},        \* those of them the storage provider failed for
   urls |-> {}]          \* the map it returned: the URL under `path` was
                         \* signed for the path `signed_for`

\* the cache layer before its first operation
CacheAtRest ==
  /\ redis = [k \in CacheKeys |-> NoEntry]
  /\ event_participants = [u \in Users |-> IF u = "u1" THEN 1 ELSE 0]
  /\ albums = [a \in {Album} |-> [exists |-> TRUE, title |-> "t0"]]
  /\ lastOp = NoOp
  /\ ops = 0

\* no counter key
NoCounter == [exists |-> FALSE, count |-> 0, has_ttl |-> FALSE, expires_at |-> 0]

\* no checkRateLimit call in flight, none returned
\* the failure history where it is not kept
NoFailures == [kept |-> FALSE, count |-> [t \in Tokens |-> 0]]

\* no photo stored, no fetchEventPhotos call yet
NoPaging ==
  [stored |-> 0, sortBy |-> "", offset |-> 0, limit |-> 0, outcome |-> "none",
   photos |-> {}, totalCount |-> 0, queried |-> FALSE]

IdleLimiter ==
  [pc |-> [s \in Slots |-> "idle"],
   \* history variables, read only by the properties
   usedUp |-> [s \in Slots |-> FALSE], \* the ceiling was used up when s incremented
   checks |-> 0,                        \* checks begun
   last |-> [done |-> FALSE, usedUp |-> FALSE, raised |-> FALSE, count |-> 0]]

\* no sendBulkNotification call in flight
IdleBulk ==
  [pc |-> "idle", userIds |-> <<>>, type |-> Undefined,
   data |-> [f \in Fields |-> "missing"],
   i |-> 0,                 \* the loop variable: offset of the current batch
   results |-> [successful |-> 0, failed |-> 0, details |-> <<>>],
   runs |-> 0,
   \* history: the users without an active token when the batch was launched
   noTokens |-> {}]              \* calls begun

\* no storePushToken call in flight
IdleReg ==
  [pc |-> "idle", userId |-> Undefined, token |-> Undefined,
   platform |-> Undefined, existing |-> FALSE, returned |-> Undefined]

\* a getEventParticipants call that has not begun
IdleReader ==
  [pc |-> "idle", reads |-> 0, forceRefresh |-> FALSE,
   result |-> NoPayload, wrote |-> FALSE, outcome |-> "none",
   payload |-> NoPayload]

\* the rows of the two queue tables and the processor runs that may overlap
WebhookIds == {"w1", "w2"}
NotificationIds == {"n1"}
Runs == {1, 2}

\* a webhook_queue row that was never inserted
NoWebhook ==
  [status |-> "none", retry_count |-> 0,
   \* history variables, read only by the properties
   attempts |-> 0,        \* processWebhookPayload calls made for the row
   settled |-> FALSE,     \* the row has been sent or failed_permanent
   late |-> FALSE]        \* a call was made for the row after it had settled

\* a notification_queue row that was never inserted
NoNotification ==
  [status |-> "none", retry_count |-> 0, scheduled_for |-> 0,
   devices_reached |-> 0,
   \* history variable, read only by the properties
   early |-> FALSE]       \* a dispatch was made for the row before scheduled_for

\* a processor run that has not begun
IdleRun ==
  [pc |-> "idle", queue |-> "", batch |-> <<>>, i |-> 0, threw |-> FALSE,
   processedCount |-> 0,
   started |-> 0]         \* runs this processor has begun

\* the step-wise participants read and the queue processors before their
\* first call
LaterAtRest ==
  /\ reader = IdleReader
  /\ webhook_queue = [w \in WebhookIds |-> NoWebhook]
  /\ notification_queue = [n \in NotificationIds |-> NoNotification]
  /\ run = [r \in Runs |-> IdleRun]

\* the registration endpoint, the bulk sender and the cache-layer rate
\* limiter before their first request
RegisterAtRest ==
  /\ token_rows = <<>>
  /\ reg = [s \in Slots |-> IdleReg]
  /\ registrations = 0
  /\ bulk = IdleBulk
  /\ counter = NoCounter
  /\ limiter = IdleLimiter
  /\ paging = NoPaging
  /\ token_failures = NoFailures
  /\ LaterAtRest

IdleCleanup ==
  [pc |-> "idle", queue |-> <<>>, threw |-> FALSE,
   results |-> [validated |-> 0, deactivated |-> 0, deleted |-> 0, errors |-> 0],
   \* history variables of the run, read only by the properties
   runs |-> 0,        \* runs begun
   transient |-> {},  \* tokens whose probe failed transiently in this run
   refused |-> {}]    \* tokens the provider answered as invalid in this run

(***************************************************************************)
(* The calls in flight                                                     *)
(***************************************************************************)
NoOutcome == [success |-> FALSE, reason |-> Undefined, error |-> Undefined,
              historyId |-> Undefined, devicesReached |-> 0]

\* no adapter batch send yet
NoBatch == [size |-> 0, returned |-> FALSE, counted |-> FALSE, sum |-> 0]

\* the token batch given to bucket b's adapter and the successCount +
\* failureCount of the object it returned (returned: it did not throw;
\* counted: the object has counts)
BatchCounts(b, tokens, resp) ==
  LET sumOf(results) ==
        SeqSum([i \in 1..Len(results) |->
                  results[i].successCount + results[i].failureCount])
      ret == CASE b = "expo" ->
                    LET r == sendBatchExpoPushNotifications(tokens, resp)
                    IN [returned |-> TRUE, counted |-> r.success,
                        sum |-> r.successCount + r.failureCount]
               [] b = "fcm_v1" ->
                    LET r == sendBatchFCMv1Notifications(tokens, resp)
                    IN [returned |-> ~r.threw, counted |-> ~r.threw,
                        sum |-> r.successCount + r.failureCount]
               [] b = "fcm" ->
                    LET r == sendBatchFCMNotifications(tokens, resp)
                    IN [returned |-> TRUE, counted |-> r.success,
                        sum |-> sumOf(r.results)]
               [] OTHER ->
                    LET r == sendBatchAPNSNotifications(tokens, resp)
                    IN [returned |-> TRUE, counted |-> r.success,
                        sum |-> sumOf(r.results)]
  IN [size |-> Len(tokens), returned |-> ret.returned, counted |-> ret.counted,
      sum |-> IF ret.counted THEN ret.sum ELSE 0]

IdleCall ==
  [pc |-> "idle", entry |-> Undefined, userId |-> Undefined, type |-> Undefined,
   tokens |-> <<>>, bucket |-> 0, results |-> EmptyResults,
   outcome |-> NoOutcome,
   \* history variables of the call, read only by the properties
   providerCalls |-> 0,   \* adapter batch sends made
   tried |-> {},          \* buckets whose adapter was called
   threw |-> {},          \* buckets whose adapter call threw
   handed |-> {},         \* tokens given to a provider-bound chunk
   attempted |-> {},      \* tokens in a chunk the provider was called with
   reported |-> {},       \* tokens the provider answered as invalid
   lastBatch |-> NoBatch, \* what the last adapter batch send was given, returned
   routed |-> {},         \* <<i, adapter>>: tokens[i] was given to that adapter
   historyLost |-> FALSE, \* the insert into notification_history failed
   policy |-> Undefined,  \* what should_send_notification answered, kept until
                          \* the call's next await has returned
   disabled |-> FALSE,    \* the stored preference named as the type was off,
                          \* kept until the call's next await has returned
   rateChecked |-> FALSE, \* the call went through isRateLimited
   windowOpen |-> FALSE,  \* the key's window was open when it did
   sentInWindow |-> 0]    \* dispatches logged in that window until then

\* a skip whose return statement is missing: the reason is noted and the
\* call goes on to its next stage
SkipFallsThrough(rec, reason) ==
  [rec EXCEPT !.pc = CASE rec.pc = "shouldSend" -> "prefs"
                       [] rec.pc = "prefs" -> "tokens"
                       [] OTHER -> "log",
              !.outcome = [NoOutcome EXCEPT !.reason = reason]]

\* return { success: false, reason }
Skip(rec, reason) ==
  [rec EXCEPT !.pc = "done",
              !.outcome = [NoOutcome EXCEPT !.reason = reason]]

\* a catch that rethrows: the call ends with the exception, not a result
FailRethrows(rec, error) ==
  [rec EXCEPT !.pc = "raised"]

\* the catch of sendNotification: return { success: false, error }
Fail(rec, error) ==
  [rec EXCEPT !.pc = "done",
              !.outcome = [NoOutcome EXCEPT !.error = error]]

\* the dispatches a key's log holds as sent at or after time t
SentSince(log, t) ==
  Cardinality({i \in 1..Len(log) : log[i].what = "sent" /\ log[i].at >= t})

(***************************************************************************)
(* sendNotification, one action per stretch between two awaits             *)
(***************************************************************************)
\* entry, validateNotificationData: the call up to its first await
Begin(userId, type, data) ==
  LET entered == [IdleCall EXCEPT !.entry = "sendNotification",
                                  !.userId = userId, !.type = type]
  IN IF validateNotificationData(type, data)
     THEN [entered EXCEPT !.pc = "shouldSend"]
     ELSE Fail(entered, "Missing required data")

\* sendNotification(userId, type, data) is called, the arguments drawn from
\* the sets given, at most maxCalls times
StartWith(c, users, types, datas, maxCalls) ==
  /\ call[c].pc \in {"idle", "done"}
  /\ started < maxCalls
  /\ \E userId \in users, type \in types, data \in datas :
       call' = [call EXCEPT ![c] = Begin(userId, type, data)]
  /\ started' = started + 1
  /\ UNCHANGED <<now, push_tokens, rateLimits, notification_history, dispatchLog>>
  /\ UNCHANGED notDispatchVars

Start(c) ==
  StartWith(c, Users, Types, [Fields -> FieldValues], MaxCalls)

\* await shouldSendNotification(userId)
ShouldSend(c) ==
  /\ call[c].pc = "shouldSend"
  /\ \E rpc \in {"true", "false", "error", "throw"} :
       call' = [call EXCEPT ![c] =
         IF shouldSendNotification(rpc)
         THEN [call[c] EXCEPT !.pc = "prefs", !.policy = rpc]
         ELSE [Skip(call[c], "user_preferences") EXCEPT !.policy = rpc]]
  /\ UNCHANGED <<now, push_tokens, rateLimits, notification_history, started,
                 dispatchLog>>
  /\ UNCHANGED notDispatchVars

\* await getUserNotificationPreferences(userId), the type check and
\* isRateLimited
Prefs(c) ==
  /\ call[c].pc = "prefs"
  /\ \E row \in PreferenceRows, storeError \in BOOLEAN :
       LET preferences == getUserNotificationPreferences(row, storeError)
           userId == call[c].userId
           type == call[c].type
           key == RateKey(userId, type)
           open == rateLimits[key].exists /\ now <= rateLimits[key].resetTime
           cur == [call[c] EXCEPT
                     !.policy = Undefined,
                     !.disabled = ~storeError /\ StoredDisabled(row, type)]
           checked == [cur EXCEPT
                         !.rateChecked = TRUE,
                         !.windowOpen = open,
                         !.sentInWindow =
                            IF open
                            THEN SentSince(dispatchLog[key],
                                           rateLimits[key].resetTime - RateWindow)
                            ELSE 0]
           limited == isRateLimited(rateLimits, userId, type, now)
       IN IF ~typeEnabled(preferences, type)
          THEN /\ call' = [call EXCEPT ![c] = Skip(cur, "type_disabled")]
               /\ UNCHANGED <<rateLimits, dispatchLog>>
          ELSE /\ rateLimits' = RateLimitsAfterCheck(rateLimits, userId, type, now)
               /\ call' = [call EXCEPT ![c] =
                    IF limited
                    THEN Skip(checked, "rate_limited")
                    ELSE [checked EXCEPT !.pc = "tokens"]]
               /\ dispatchLog' =
                    IF limited
                    THEN [dispatchLog EXCEPT ![key] =
                            Append(@, [at |-> now, what |-> "limited"])]
                    ELSE dispatchLog
  /\ UNCHANGED <<now, push_tokens, notification_history, started>>
  /\ UNCHANGED notDispatchVars

\* await getUserPushTokens(userId), checkBatching (always false),
\* buildNotification and the bucketing of sendToDevices
GetTokens(c) ==
  /\ call[c].pc = "tokens"
  /\ \E storeError \in BOOLEAN :
       LET tokens == getUserPushTokens(push_tokens, call[c].userId, storeError)
           cur == [call[c] EXCEPT !.disabled = FALSE]
       IN call' = [call EXCEPT ![c] =
            IF Len(tokens) = 0 THEN Skip(cur, "no_tokens")
            ELSE IF ~buildNotification(call[c].type)
            THEN Fail(cur, "Unknown notification type")
            ELSE [cur EXCEPT
                    !.tokens = tokens,
                    !.results = [EmptyResults EXCEPT !.total = Len(tokens)],
                    !.bucket = 0,
                    !.pc = IF BucketsAfter(tokens, 0) = {} THEN "log" ELSE "send"]]
  /\ UNCHANGED <<now, push_tokens, rateLimits, notification_history, started,
                 dispatchLog>>
  /\ UNCHANGED notDispatchVars


\* sendToDevices called by an importer of the class with whole rows of
\* push_tokens (select *), device_token and token_type included
SendToDevicesDirect(c) ==
  /\ call[c].pc \in {"idle", "done"}
  /\ started < MaxCalls
  /\ \E userId \in Users :
       LET tokens ==
             [i \in 1..Len(getUserPushTokens(push_tokens, userId, FALSE)) |->
                LET t == getUserPushTokens(push_tokens, userId, FALSE)[i].token
                IN [token |-> t, platform |-> push_tokens[t].platform,
                    device_token |-> push_tokens[t].device_token,
                    token_type |-> push_tokens[t].token_type]]
       IN /\ BucketsAfter(tokens, 0) # {}
          /\ call' = [call EXCEPT ![c] =
               [IdleCall EXCEPT
                  !.pc = "send", !.entry = "sendToDevices", !.userId = userId,
                  !.tokens = tokens,
                  !.results = [EmptyResults EXCEPT !.total = Len(tokens)]]]
  /\ started' = started + 1
  /\ UNCHANGED <<now, push_tokens, rateLimits, notification_history, dispatchLog>>
  /\ UNCHANGED notDispatchVars

\* the documented limit of failed deliveries ("fail 3+ times")
FailureLimit == 3

\* history: the failed deliveries per token, counted up to FailureLimit,
\* after a batch send: a token failed when its chunk's call threw or the
\* provider answered it with anything but ok
FailuresAfter(count, chunks, called, resp) ==
  LET failedNow ==
        UNION {{chunks[k][j] : j \in {m \in 1..Len(chunks[k]) :
                  resp[k].threw \/ resp[k].codes[m] # "ok"}} : k \in called}
  IN [t \in Tokens |->
        IF t \in failedNow /\ count[t] < FailureLimit THEN count[t] + 1
        ELSE count[t]]

\* sendToDevices: the next bucket that holds tokens is sent to its adapter
SendBucket(c) ==
  /\ call[c].pc = "send"
  /\ LET i == Min(BucketsAfter(call[c].tokens, call[c].bucket))
         b == BucketOrder[i]
         tokens == BucketTokens(call[c].tokens, b)
         chunks == WireChunks(b, tokens)
     IN \E resp \in BatchResponses(chunks, CodesOf(b)) :
          LET called == ChunksCalled(b, resp)
              didThrow == AdapterThrows(b, tokens, resp)
              results == BucketResults(call[c].results, b, tokens, resp)
              rest == BucketsStillToSend(call[c].tokens, i, didThrow)
          IN /\ call' = [call EXCEPT ![c] =
               [call[c] EXCEPT
                  !.bucket = i,
                  !.results = results,
                  !.providerCalls = @ + 1,
                  !.tried = @ \cup {b},
                  !.threw = IF didThrow THEN @ \cup {b} ELSE @,
                  !.lastBatch = BatchCounts(b, tokens, resp),
                  !.routed = @ \cup
                     {<<k, b>> : k \in {j \in 1..Len(call[c].tokens) :
                                          BucketOf(call[c].tokens[j]) = b}},
                  !.handed = @ \cup UNION {Range(chunks[k]) : k \in 1..Len(chunks)},
                  !.attempted = @ \cup UNION {Range(chunks[k]) : k \in called},
                  !.reported = @ \cup
                     UNION {{chunks[k][j] : j \in {m \in 1..Len(chunks[k]) :
                                ~resp[k].threw /\ resp[k].codes[m] \in InvalidCodes}} :
                            k \in called},
                  !.pc = IF rest # {} THEN "send"
                         ELSE IF results.invalidTokens # {} THEN "deactivate"
                         ELSE IF call[c].entry = "sendToDevices" THEN "done"
                         ELSE "log"]]
             /\ token_failures' =
                  IF token_failures.kept
                  THEN [token_failures EXCEPT
                          !.count = FailuresAfter(@, chunks, called, resp)]
                  ELSE token_failures
  /\ UNCHANGED <<now, push_tokens, rateLimits, notification_history, started,
                 dispatchLog>>
  /\ UNCHANGED <<notDispatchState, laterVars>>

RECURSIVE DeactivateAll(_, _, _)
DeactivateAll(table, tokens, failing) ==
  IF tokens = {} THEN table
  ELSE LET t == CHOOSE x \in tokens : TRUE
       IN DeactivateAll(deactivatePushToken(table, t, t \in failing),
                        tokens \ {t}, failing)

\* sendToDevices: await Promise.all(invalidTokens.map(deactivatePushToken))
Deactivate(c) ==
  /\ call[c].pc = "deactivate"
  /\ \E failing \in SUBSET call[c].results.invalidTokens :
       push_tokens' = DeactivateAll(push_tokens, call[c].results.invalidTokens,
                                    failing)
  /\ call' = [call EXCEPT ![c].pc =
                IF call[c].entry = "sendToDevices" THEN "done" ELSE "log"]
  /\ UNCHANGED <<now, rateLimits, notification_history, started, dispatchLog>>
  /\ UNCHANGED notDispatchVars

\* logNotificationHistory: the table after the insert and the id returned,
\* null on a store error
logNotificationHistory(table, userId, type, t, storeError) ==
  IF storeError THEN [table |-> table, id |-> "null"]
  ELSE [table |-> Append(table, [user_id |-> userId, notification_type |-> type,
                                 status |-> "sent", created_at |-> t]),
        id |-> "id"]

\* a return that reports the dispatch as failed when the history row was not
\* written
SentOnlyIfLogged(rec, historyId) ==
  IF historyId = "null"
  THEN [rec EXCEPT !.pc = "done",
                   !.outcome = [NoOutcome EXCEPT !.error = "history not written"]]
  ELSE [rec EXCEPT !.pc = "done",
                   !.outcome = [rec.outcome EXCEPT
                                  !.success = TRUE, !.historyId = historyId,
                                  !.devicesReached = rec.results.successful]]

\* return { success: true, results, historyId, devicesReached }
Sent(rec, historyId) ==
  [rec EXCEPT !.pc = "done",
              !.outcome = [rec.outcome EXCEPT
                             !.success = TRUE, !.historyId = historyId,
                             !.devicesReached = rec.results.successful]]

\* await logNotificationHistory(...), updateRateLimit and the return
LogHistory(c) ==
  /\ call[c].pc = "log"
  /\ \E storeError \in BOOLEAN :
       LET logged == logNotificationHistory(notification_history, call[c].userId,
                                            call[c].type, now, storeError)
       IN /\ notification_history' = logged.table
          /\ call' = [call EXCEPT ![c] =
               [Sent(call[c], logged.id) EXCEPT !.historyLost = storeError]]
  /\ rateLimits' = updateRateLimit(rateLimits, call[c].userId, call[c].type, now)
  /\ dispatchLog' = [dispatchLog EXCEPT ![RateKey(call[c].userId, call[c].type)] =
                       Append(@, [at |-> now, what |-> "sent"])]
  /\ UNCHANGED <<now, push_tokens, started>>
  /\ UNCHANGED notDispatchVars

\* sendTestNotification: the adapter the if-chain picks for one token
TestAdapter(deviceToken, platform) ==
  IF StartsWithExponentPushToken(deviceToken) THEN "expo"
  ELSE IF platform = "android" THEN "fcm"
  ELSE IF platform = "ios" THEN "ios"
  ELSE "none"

\* sendTestNotification(userId, deviceToken, platform): one send through the
\* adapter picked, or 'Invalid platform' thrown into the catch
SendTestNotification(c) ==
  /\ call[c].pc \in {"idle", "done"}
  /\ started < MaxCalls
  /\ \E deviceToken \in {ExpoA, "dev1"}, platform \in Platforms,
        answer \in {"ok", "transient"} :
       LET adapter == TestAdapter(deviceToken, platform)
           entered == [IdleCall EXCEPT
                         !.entry = "sendTestNotification",
                         !.tokens = <<[token |-> deviceToken, platform |-> platform,
                                       device_token |-> Undefined,
                                       token_type |-> Undefined]>>]
       IN call' = [call EXCEPT ![c] =
            IF adapter = "none" THEN Fail(entered, "Invalid platform")
            ELSE [entered EXCEPT
                    !.pc = "done",
                    !.routed = {<<1, adapter>>},
                    !.providerCalls = 1,
                    !.outcome = [NoOutcome EXCEPT
                                   !.success = (answer = "ok"),
                                   !.error = IF answer = "ok" THEN Undefined
                                             ELSE "provider error"]]]
  /\ started' = started + 1
  /\ UNCHANGED <<now, push_tokens, rateLimits, notification_history, dispatchLog>>
  /\ UNCHANGED notDispatchVars

\* time passes
Tick ==
  /\ now < MaxTicks * TickStep
  /\ now' = now + TickStep
  /\ UNCHANGED <<push_tokens, rateLimits, notification_history, call, started,
                 dispatchLog>>
  /\ UNCHANGED notDispatchVars

(***************************************************************************)
(* The dispatch specification                                              *)
(***************************************************************************)
Row(user, platform, tokenType) ==
  [user_id |-> user, platform |-> platform, is_active |-> TRUE,
   token_type |-> tokenType, device_token |-> Undefined, exists |-> TRUE]

\* the push_tokens tables the store may start with; every token is u1's
TokenTables ==
  {(ExpoA :> Row("u1", "ios", "expo") @@ ExpoB :> Row("u1", "android", "expo")
      @@ ExpoBad :> Row("u1", "ios", "expo")),
   ("dev1" :> Row("u1", "android", "fcm") @@ "dev2" :> Row("u1", "android", "fcm")),
   ("dev1" :> Row("u1", "ios", "apns") @@ "dev2" :> Row("u1", "ios", "apns")),
   ("dev1" :> Row("u1", "android", "fcm_v1") @@ "dev2" :> Row("u1", "ios", "apns")),
   (ExpoA :> Row("u1", "ios", "expo") @@ "dev1" :> Row("u1", "android", "fcm")
      @@ "dev2" :> Row("u1", "web", "expo"))}

InitDispatch ==
  /\ now = 0
  /\ \E d \in TokenTables :
       push_tokens = [t \in Tokens |-> IF t \in DOMAIN d THEN d[t] ELSE NoRow]
  /\ rateLimits = [k \in Users \X Types |-> NoLimits]
  /\ notification_history = <<>>
  /\ call = [c \in Slots |-> IdleCall]
  /\ started = 0
  /\ dispatchLog = [k \in Users \X Types |-> <<>>]
  /\ token_times = [t \in Tokens |-> NoTimes]
  /\ cleanup = IdleCleanup
  /\ CacheAtRest
  /\ RegisterAtRest

NextDispatch ==
  \/ Start(1)
  \/ ShouldSend(1)
  \/ Prefs(1)
  \/ GetTokens(1)
  \/ SendToDevicesDirect(1)
  \/ SendBucket(1)
  \/ Deactivate(1)
  \/ LogHistory(1)
  \/ SendTestNotification(1)
  \/ Tick

SpecDispatch == InitDispatch /\ [][NextDispatch]_vars

(***************************************************************************)
(* Properties of the dispatch                                              *)
(***************************************************************************)
SkipReasons == {"user_preferences", "type_disabled", "rate_limited", "no_tokens"}

\* the call has left sendToDevices' provider blocks
PastSends(c) == call[c].pc \in {"deactivate", "log", "done"}

\* the buckets of the call's tokens
BucketsOfCall(c) == {BucketOrder[j] : j \in BucketsAfter(call[c].tokens, 0)}

\* C1: a sendNotification call that ends in a skip outcome (user preferences,
\* type disabled, rate limited, no active tokens) or on invalid data has made
\* no call to any provider adapter.
C1_SkipMakesNoProviderCall ==
  \A c \in Slots :
    (/\ call[c].pc = "done"
     /\ call[c].entry = "sendNotification"
     /\ \/ call[c].outcome.reason \in SkipReasons
        \/ call[c].outcome.error = "Missing required data")
    => call[c].providerCalls = 0

\* a call skipped as rate limited, which an earlier dispatch with provider
\* calls must have preceded
C1_Witness ==
  /\ call[1].pc = "done"
  /\ call[1].outcome.reason = "rate_limited"
  /\ call[1].providerCalls = 0
  /\ Len(notification_history) > 0

C6_ReportedInvalidIsInactive ==
  \A c \in Slots :
    call[c].pc = "done" =>
      \A t \in call[c].reported : ~push_tokens[t].is_active

\* C7: a token is marked for deactivation only if the provider answered that
\* very token as invalid or unregistered.
C7_MarkedOnlyIfClassifiedInvalid ==
  \A c \in Slots : call[c].results.invalidTokens \subseteq call[c].reported

\* a batch in which one token was marked while another failed unmarked
C7_Witness ==
  /\ call[1].pc = "done"
  /\ call[1].results.invalidTokens # {}
  /\ call[1].results.failed > Cardinality(call[1].results.invalidTokens)

\* C9: once a dispatch in which a bucket's batch send threw has left the
\* provider blocks, the adapter of every bucket that holds tokens was called.
C9_ThrowDoesNotStopOtherBuckets ==
  \A c \in Slots :
    (PastSends(c) /\ call[c].threw # {}) => BucketsOfCall(c) \subseteq call[c].tried

\* a dispatch whose first bucket threw and whose later bucket was sent
C9_Witness ==
  /\ call[1].pc = "done"
  /\ "fcm_v1" \in call[1].threw
  /\ "ios" \in call[1].tried

\* C10: every token an adapter put into a chunk of a batch is in a chunk the
\* provider was called with, whatever happened to the other chunks.
C10_RemainingTokensAttempted ==
  \A c \in Slots : call[c].handed \subseteq call[c].attempted

(***************************************************************************)
(* api/cron/cleanup-tokens.js: cleanupInvalidTokens                        *)
(***************************************************************************)
\* clean-up runs begun in one behaviour
MaxCleanupRuns == 2
\* In this specification the clock counts days, not milliseconds: the
\* cron's thresholds are whole days.  The clock stops at MaxCleanupTicks
\* ticks of CleanupTickStep days.
MaxCleanupTicks == 2
CleanupTickStep == 50

\* Date.now() - 7 * 24 * 60 * 60 * 1000 and its 90 and 30 day likes, in days
SevenDays == 7
NinetyDays == 90
ThirtyDays == 30

\* what the provider can answer to a validation probe: a code of Codes, or
\* the probe throws for another reason (network, credentials); APNs may also
\* answer with neither sent nor failed
ProbeAnswers == Codes \cup {"throws", "empty"}

\* fcm.js validateFCMToken: subscribeToTopic's outcome
validateFCMToken(answer) ==
  CASE answer = "ok" -> [valid |-> TRUE, shouldDeactivate |-> FALSE]
    [] answer \in {"invalid", "unregistered"} ->
         [valid |-> FALSE, shouldDeactivate |-> TRUE]
    [] OTHER -> [valid |-> FALSE, shouldDeactivate |-> FALSE]

\* apns.js validateAPNSToken: provider.send's outcome
validateAPNSToken(answer) ==
  CASE answer = "ok" -> [valid |-> TRUE, shouldDeactivate |-> FALSE]
    [] answer \in {"throws", "empty"} -> [valid |-> FALSE, shouldDeactivate |-> FALSE]
    [] OTHER ->
         [valid |-> FALSE,
          shouldDeactivate |-> ApnsError(answer) = "BadDeviceToken"
                                 \/ ApnsError(answer) = "Unregistered"]

\* the probes a platform's validation can meet
AnswersOf(platform) ==
  IF platform = "ios" THEN ProbeAnswers ELSE ProbeAnswers \ {"empty"}

\* what the cron does with a validation: "if (validation.valid) ... else
\* deactivate", whatever shouldDeactivate says
CleanupDeactivates(validation) == ~validation.valid

\* the rows the cron selects: active, never validated or validated more than
\* seven days ago
TokensToValidate(table, times, t) ==
  SelectSeq(TokenOrder,
            LAMBDA k : /\ table[k].exists
                       /\ table[k].is_active
                       /\ \/ ~times[k].validated
                          \/ times[k].last_validated_at < t - SevenDays)

\* entry and the select of the tokens to validate
CleanupStart ==
  /\ cleanup.pc \in {"idle", "done"}
  /\ cleanup.runs < MaxCleanupRuns
  /\ \E storeError \in BOOLEAN :
       LET queue == TokensToValidate(push_tokens, token_times, now)
           fresh == [IdleCleanup EXCEPT !.runs = cleanup.runs + 1]
       IN cleanup' =
            IF storeError THEN [fresh EXCEPT !.pc = "done", !.threw = TRUE]
            ELSE IF Len(queue) = 0 THEN [fresh EXCEPT !.pc = "done"]
            ELSE [fresh EXCEPT !.pc = "validate", !.queue = queue]
  /\ UNCHANGED <<now, push_tokens, notification_history, token_times>>
  /\ UNCHANGED notCleanupVars

\* the body of batch.map for one token
CleanupValidate ==
  /\ cleanup.pc = "validate"
  /\ LET t == Head(cleanup.queue)
         platform == push_tokens[t].platform
         rest == [cleanup EXCEPT
                    !.queue = Tail(cleanup.queue),
                    !.pc = IF Len(cleanup.queue) = 1 THEN "delete" ELSE "validate"]
     IN IF platform \notin {"android", "ios"}
        THEN /\ cleanup' = rest
             /\ UNCHANGED <<push_tokens, token_times>>
        ELSE \E answer \in AnswersOf(platform), updateError \in BOOLEAN :
               LET validation == IF platform = "android"
                                 THEN validateFCMToken(answer)
                                 ELSE validateAPNSToken(answer)
                   noted == [rest EXCEPT
                               !.results.validated = @ + 1,
                               !.transient = IF answer \in TransientCodes
                                             THEN @ \cup {t} ELSE @,
                               !.refused = IF answer \in InvalidCodes
                                           THEN @ \cup {t} ELSE @]
               IN IF ~CleanupDeactivates(validation)
                  THEN /\ cleanup' = noted
                       /\ token_times' =
                            IF updateError THEN token_times
                            ELSE [token_times EXCEPT
                                    ![t].validated = TRUE,
                                    ![t].last_validated_at = now]
                       /\ UNCHANGED push_tokens
                  ELSE /\ cleanup' = [noted EXCEPT !.results.deactivated = @ + 1]
                       /\ push_tokens' =
                            IF updateError THEN push_tokens
                            ELSE [push_tokens EXCEPT ![t].is_active = FALSE]
                       /\ token_times' =
                            IF updateError THEN token_times
                            ELSE [token_times EXCEPT
                                    ![t].deactivated = TRUE,
                                    ![t].deactivated_at = now]
  /\ UNCHANGED <<now, notification_history>>
  /\ UNCHANGED notCleanupVars

\* the deletes that end a run: inactive tokens deactivated more than 90 days
\* ago, notification_history older than 30 days
CleanupDelete ==
  /\ cleanup.pc = "delete"
  /\ \E deleteError \in BOOLEAN, historyDeleteError \in BOOLEAN :
       LET old == {t \in Tokens :
                     /\ push_tokens[t].exists
                     /\ ~push_tokens[t].is_active
                     /\ token_times[t].deactivated
                     /\ token_times[t].deactivated_at < now - NinetyDays}
       IN /\ push_tokens' =
               IF deleteError THEN push_tokens
               ELSE [t \in Tokens |-> IF t \in old THEN NoRow ELSE push_tokens[t]]
          /\ token_times' =
               IF deleteError THEN token_times
               ELSE [t \in Tokens |-> IF t \in old THEN NoTimes ELSE token_times[t]]
          /\ cleanup' = [cleanup EXCEPT
                           !.pc = "done",
                           !.results.deleted = IF deleteError THEN 0
                                               ELSE Cardinality(old)]
          /\ notification_history' =
               IF historyDeleteError THEN notification_history
               ELSE SelectSeq(notification_history,
                              LAMBDA h : ~(h.created_at < now - ThirtyDays))
  /\ UNCHANGED now
  /\ UNCHANGED notCleanupVars

\* time passes between and during runs
CleanupTick ==
  /\ now < MaxCleanupTicks * CleanupTickStep
  /\ now' = now + CleanupTickStep
  /\ UNCHANGED <<push_tokens, notification_history, token_times, cleanup>>
  /\ UNCHANGED notCleanupVars

InitCleanup ==
  /\ now = 0
  /\ push_tokens =
       [t \in Tokens |->
          CASE t = "dev1" -> Row("u1", "android", "fcm")
            [] t = "dev2" -> Row("u1", "ios", "apns")
            [] t = ExpoA -> Row("u2", "web", "expo")
            [] OTHER -> NoRow]
  /\ token_times = [t \in Tokens |-> NoTimes]
  /\ notification_history =
       <<[user_id |-> "u1", notification_type |-> "event_live",
          status |-> "sent", created_at |-> 0]>>
  /\ cleanup = IdleCleanup
  /\ rateLimits = [k \in Users \X Types |-> NoLimits]
  /\ call = [c \in Slots |-> IdleCall]
  /\ started = 0
  /\ dispatchLog = [k \in Users \X Types |-> <<>>]
  /\ CacheAtRest
  /\ RegisterAtRest

NextCleanup ==
  \/ CleanupStart
  \/ CleanupValidate
  \/ CleanupDelete
  \/ CleanupTick

SpecCleanup == InitCleanup /\ [][NextCleanup]_vars

\* C8: a token whose validation failed with a transient provider error
\* (quota or rate exceeded) in a clean-up run stays active.
C8_TransientNeverDeactivates ==
  \A t \in cleanup.transient : push_tokens[t].exists => push_tokens[t].is_active

(***************************************************************************)
(* participants-cache.js, album-cache.js, photo-url-cache.js               *)
(***************************************************************************)
\* cache-layer operations in one behaviour
MaxCacheOps == 3
\* the cache layer's clock stops at MaxCacheTicks ticks of CacheTickStep
\* milliseconds (20 minutes)
MaxCacheTicks == 2
CacheTickStep == 1200000

\* CACHE_CONFIG.PARTICIPANTS.TTL, METADATA_TTL; the albums' hour; the photo
\* URLs' DEFAULT_EXPIRY and the 30 minute cap of the event cache
ParticipantsTTL == 1800
MetadataTTL == 900
AlbumsTTL == 3600
DefaultExpiry == 3600
EventCacheMaxTTL == 1800

Returned(op, role, payload, cached, stale) ==
  [NoOp EXCEPT !.op = op, !.role = role, !.outcome = "returned",
               !.payload = payload, !.cached = cached, !.stale = stale]

Raised(op, role) == [NoOp EXCEPT !.op = op, !.role = role, !.outcome = "raised"]

\* getEventParticipants(eventId, { page: 1, limit: 20, forceRefresh })
GetEventParticipants ==
  /\ ops < MaxCacheOps
  /\ \E forceRefresh \in BOOLEAN, dbFails \in BOOLEAN, redisDown \in BOOLEAN :
       LET cacheKey == ParticipantsKey(Event, "1", "20")
           cachedData == getWithAge(redis, cacheKey, now, redisDown)
           staleData == getCachedData(redis, cacheKey, now, redisDown)
           result == [items |-> {u \in Users : event_participants[u] > 0},
                      by |-> ""]
           had == getCachedData(redis, cacheKey, now, redisDown).found
       IN IF ~forceRefresh /\ cachedData.found /\ ~cachedData.is_expired
          THEN /\ lastOp' = [Returned("getEventParticipants", "", cachedData.payload,
                                      TRUE, FALSE) EXCEPT !.hadEntry = had, !.forced = forceRefresh]
               /\ UNCHANGED redis
          ELSE IF dbFails
          THEN /\ lastOp' =
                    [(IF staleData.found
                      THEN Returned("getEventParticipants", "", staleData.payload,
                                    TRUE, TRUE)
                      ELSE Raised("getEventParticipants", ""))
                     EXCEPT !.dbFailed = TRUE, !.hadEntry = had, !.forced = forceRefresh]
               /\ UNCHANGED redis
          ELSE /\ redis' =
                    setWithAutoExpiry(
                      setWithAutoExpiry(redis, cacheKey, result, ParticipantsTTL,
                                        now, redisDown),
                      ParticipantsMetadataKey(Event),
                      [items |-> {}, by |-> ""], MetadataTTL, now, redisDown)
               /\ lastOp' = [Returned("getEventParticipants", "", result,
                                      FALSE, FALSE) EXCEPT !.hadEntry = had, !.forced = forceRefresh]
  /\ ops' = ops + 1
  /\ UNCHANGED <<now, event_participants, albums>>
  /\ UNCHANGED notCacheVars

\* the insert into event_participants under the table's unique constraint
\* on (event_id, user_id): a second row for the pair is refused with code
\* 23505
insertParticipant(table, userId, dbFails) ==
  IF dbFails THEN [table |-> table, code |-> "error"]
  ELSE IF table[userId] > 0 THEN [table |-> table, code |-> "23505"]
  ELSE [table |-> [table EXCEPT ![userId] = 1], code |-> "ok"]

\* an add that treats the duplicate like any other store error
DuplicateIsError(code) ==
  FALSE

\* "Handle duplicate entry gracefully": error.code === '23505'
DuplicateIsBenign(code) ==
  code = "23505"

\* addParticipant(eventId, userId): the insert succeeds, hits the unique
\* constraint (23505) or fails
AddParticipantWith(redisStates) ==
  /\ ops < MaxCacheOps
  /\ \E userId \in {"u1", "u2"}, dbFails \in BOOLEAN, redisDown \in redisStates :
       LET ins == insertParticipant(event_participants, userId, dbFails)
           called == [user |-> userId, dup |-> event_participants[userId] > 0]
           note(rec, message) ==
             [rec EXCEPT !.user = called.user, !.dup = called.dup,
                         !.message = message]
       IN /\ event_participants' = ins.table
          /\ IF ins.code = "ok"
             THEN /\ redis' = deleteCachePattern(redis, "participants", Event,
                                                 redisDown)
                  /\ lastOp' = note([Returned("addParticipant", "", NoPayload,
                                              FALSE, FALSE)
                                     EXCEPT !.mutated = TRUE],
                                    "Participant added successfully")
             ELSE IF DuplicateIsBenign(ins.code)
             THEN /\ lastOp' = note(Returned("addParticipant", "", NoPayload,
                                             FALSE, FALSE),
                                    "User already a participant")
                  /\ UNCHANGED redis
             ELSE /\ lastOp' = note([Raised("addParticipant", "")
                                     EXCEPT !.dbFailed = dbFails], "")
                  /\ UNCHANGED redis
  /\ ops' = ops + 1
  /\ UNCHANGED <<now, albums>>
  /\ UNCHANGED notCacheVars

AddParticipant == AddParticipantWith(BOOLEAN)

\* removeParticipant(eventId, userId)
RemoveParticipantWith(redisStates) ==
  /\ ops < MaxCacheOps
  /\ \E userId \in {"u1", "u2"}, dbFails \in BOOLEAN, redisDown \in redisStates :
       IF dbFails
       THEN /\ lastOp' = [Raised("removeParticipant", "") EXCEPT !.dbFailed = TRUE]
            /\ UNCHANGED <<redis, event_participants>>
       ELSE /\ event_participants' = [event_participants EXCEPT ![userId] = 0]
            /\ redis' = deleteCachePattern(redis, "participants", Event, redisDown)
            /\ lastOp' = [Returned("removeParticipant", "", NoPayload, FALSE, FALSE)
                          EXCEPT !.mutated = TRUE]
  /\ ops' = ops + 1
  /\ UNCHANGED <<now, albums>>
  /\ UNCHANGED notCacheVars

RemoveParticipant == RemoveParticipantWith(BOOLEAN)

\* the albums of the event as the store holds them
AlbumRows(table) == {table[a].title : a \in {b \in DOMAIN table : table[b].exists}}

\* getEventAlbums(eventId, { page: 1, limit: 50, forceRefresh, includePhotos }).
\* processAlbumPhotos leaves processed_photos empty without includePhotos: the
\* payload is tagged with the option it was built for.
GetEventAlbums ==
  /\ ops < MaxCacheOps
  /\ \E forceRefresh \in BOOLEAN, includePhotos \in BOOLEAN,
        dbFails \in BOOLEAN, redisDown \in BOOLEAN :
       LET cacheKey == AlbumsKey(Event, "1", "50")
           option == IF includePhotos THEN "photos" ELSE "no_photos"
           cached == getWithAge(redis, cacheKey, now, redisDown)
           result == [items |-> AlbumRows(albums),
                      by |-> IF AlbumRows(albums) = {} THEN "" ELSE option]
           had == getCachedData(redis, cacheKey, now, redisDown).found
       IN IF ~forceRefresh /\ cached.found /\ ~cached.is_expired
          THEN /\ lastOp' = [Returned("getEventAlbums", option, cached.payload,
                                      TRUE, FALSE) EXCEPT !.hadEntry = had, !.forced = forceRefresh]
               /\ UNCHANGED redis
          ELSE IF dbFails
          THEN /\ lastOp' = [Raised("getEventAlbums", option) EXCEPT
                               !.dbFailed = TRUE, !.hadEntry = had, !.forced = forceRefresh]
               /\ UNCHANGED redis
          ELSE /\ redis' = setWithAutoExpiry(redis, cacheKey, result,
                              IF AlbumRows(albums) = {} THEN 300 ELSE AlbumsTTL,
                              now, redisDown)
               /\ lastOp' = [Returned("getEventAlbums", option, result, FALSE, FALSE)
                             EXCEPT !.hadEntry = had, !.forced = forceRefresh]
  /\ ops' = ops + 1
  /\ UNCHANGED <<now, event_participants, albums>>
  /\ UNCHANGED notCacheVars

\* updateAlbum(albumId, updates): update ... .single() fails when the store
\* fails or the album is gone
UpdateAlbum ==
  /\ ops < MaxCacheOps
  /\ \E title \in {"t0", "t1"}, dbFails \in BOOLEAN, redisDown \in BOOLEAN :
       IF dbFails \/ ~albums[Album].exists
       THEN /\ lastOp' = [Raised("updateAlbum", "") EXCEPT !.dbFailed = dbFails]
            /\ UNCHANGED <<redis, albums>>
       ELSE /\ albums' = [albums EXCEPT ![Album].title = title]
            /\ redis' = deleteCachePattern(redis, "album", Event, redisDown)
            /\ lastOp' = [Returned("updateAlbum", "", NoPayload, FALSE, FALSE)
                          EXCEPT !.mutated = TRUE]
  /\ ops' = ops + 1
  /\ UNCHANGED <<now, event_participants>>
  /\ UNCHANGED notCacheVars

\* deleteAlbum(albumId, eventId)
DeleteAlbum ==
  /\ ops < MaxCacheOps
  /\ \E dbFails \in BOOLEAN, redisDown \in BOOLEAN :
       IF dbFails
       THEN /\ lastOp' = [Raised("deleteAlbum", "") EXCEPT !.dbFailed = TRUE]
            /\ UNCHANGED <<redis, albums>>
       ELSE /\ albums' = [albums EXCEPT ![Album].exists = FALSE]
            /\ redis' = deleteCachePattern(redis, "album", Event, redisDown)
            /\ lastOp' = [Returned("deleteAlbum", "", NoPayload, FALSE, FALSE)
                          EXCEPT !.mutated = TRUE]
  /\ ops' = ops + 1
  /\ UNCHANGED <<now, event_participants>>
  /\ UNCHANGED notCacheVars

\* the event row and its photos: a moderated event with one approved and one
\* pending photo
EventRow == [id |-> Event, created_by |-> Organizer, require_moderation |-> TRUE]

Photos == {[id |-> "p1", moderation_status |-> "approved"],
           [id |-> "p2", moderation_status |-> "pending"]}

\* fetchEventPhotos: the moderation filter of the query
fetchEventPhotos(event, isOrganizer) ==
  {p.id : p \in
     {q \in Photos :
        IF event.require_moderation
        THEN IF isOrganizer
             THEN q.moderation_status \in {"approved", "pending", "pending_approval"}
             ELSE q.moderation_status = "approved"
        ELSE q.moderation_status # "deleted"}}

\* the 5 minute buffer of the cached URLs' expiry check
UrlExpiryBuffer == 300000

\* an expiresIn a caller may ask for, seconds: 25 minutes
ShortExpiry == 25 * 60

\* hasExpiredUrls: now + buffer >= exp of a URL signed when the entry was made
hasExpiredUrls(entry, t) ==
  entry.payload.items # {} /\ t + UrlExpiryBuffer >= entry.cached_at + DefaultExpiry * 1000

\* getEventPhotoUrls(eventId, { page: 1, limit: 50, userId, forceRefresh })
GetEventPhotoUrls ==
  /\ ops < MaxCacheOps
  /\ \E userId \in Readers, forceRefresh \in BOOLEAN,
        dbFails \in {"no", "event", "photos"}, redisDown \in BOOLEAN :
       LET event == EventRow
           isOrganizer == userId # Undefined /\ userId = event.created_by
           userRole == IF userId = Undefined THEN "anonymous"
                       ELSE IF isOrganizer THEN "organizer" ELSE "participant"
           moderationMode == IF event.require_moderation THEN "moderated"
                             ELSE "unmoderated"
           cacheKey == PhotoKey(Event, "most_liked", userRole, moderationMode,
                                "1", "50")
           cachedEventUrls == getWithAge(redis, cacheKey, now, redisDown)
           photos == fetchEventPhotos(event, isOrganizer)
           result == [items |-> photos, by |-> userRole]
           had == getCachedData(redis, cacheKey, now, redisDown).found
           ttl == IF DefaultExpiry < EventCacheMaxTTL THEN DefaultExpiry
                  ELSE EventCacheMaxTTL
       IN IF dbFails = "event"
          THEN /\ lastOp' = [Raised("getEventPhotoUrls", userRole) EXCEPT
                               !.dbFailed = TRUE, !.hadEntry = had, !.forced = forceRefresh]
               /\ UNCHANGED redis
          ELSE IF /\ ~forceRefresh
                  /\ cachedEventUrls.found
                  /\ ~cachedEventUrls.is_expired
                  /\ ~hasExpiredUrls(redis[cacheKey], now)
          THEN /\ lastOp' = [Returned("getEventPhotoUrls", userRole,
                                      cachedEventUrls.payload, TRUE, FALSE)
                             EXCEPT !.hadEntry = had, !.forced = forceRefresh,
                                    !.expiring = hasExpiredUrls(redis[cacheKey], now)]
               /\ UNCHANGED redis
          ELSE IF dbFails = "photos"
          THEN /\ lastOp' = [Raised("getEventPhotoUrls", userRole) EXCEPT
                               !.dbFailed = TRUE, !.hadEntry = had, !.forced = forceRefresh]
               /\ UNCHANGED redis
          ELSE /\ redis' = IF photos = {} THEN redis
                           ELSE setWithAutoExpiry(redis, cacheKey, result, ttl,
                                                  now, redisDown)
               /\ lastOp' = [Returned("getEventPhotoUrls", userRole, result,
                                      FALSE, FALSE) EXCEPT !.hadEntry = had, !.forced = forceRefresh]
  /\ ops' = ops + 1
  /\ UNCHANGED <<now, event_participants, albums>>
  /\ UNCHANGED notCacheVars

\* what createSignedUrl may do for one path: give a URL, answer with an
\* error, answer without a URL, or throw
SignAnswers == {"url", "error", "no_url", "throw"}

\* a batch whose per-path failures reject the whole batch
generateSignedUrlsBatchRejects(photoPaths, answer) ==
  [raised |-> \E path \in photoPaths : answer[path] # "url",
   urls |-> IF \E path \in photoPaths : answer[path] # "url" THEN {}
            ELSE photoPaths]

\* generateSignedUrlsBatch: every path's promise fulfils, with a URL or with
\* url: null; the map holds the paths that got a URL
generateSignedUrlsBatch(photoPaths, answer) ==
  [raised |-> FALSE,
   urls |-> {path \in photoPaths : answer[path] = "url"}]

\* cacheData[cacheKey] = { path, signed_url, ... } in the order of the map:
\* of the paths with one key the last one stays
LastUnder(k, urls) ==
  LET at == {i \in 1..Len(PathOrder) :
               PathOrder[i] \in urls /\ PhotoUrlKey(PathOrder[i]) = k}
  IN PathOrder[CHOOSE i \in at : \A j \in at : j <= i]

\* cacheSignedUrls -> setBatch: one setex per URL, or nothing when the
\* operation fails
cacheSignedUrls(store, urls, expiresIn, t, redisDown) ==
  IF redisDown THEN store
  ELSE [k \in CacheKeys |->
          IF \E path \in urls : k = PhotoUrlKey(path)
          THEN [present |-> TRUE,
                payload |-> [items |-> {LastUnder(k, urls)}, by |-> ""],
                cached_at |-> t, expires_at |-> t + expiresIn * 1000]
          ELSE store[k]]

\* batchGenerateSignedUrls(photoPaths, { expiresIn, forceRefresh }) for a
\* non-empty array of distinct paths within the request limits; the sets
\* name the arrays and expiries callers give, maxOps bounds the calls
BatchGenerateSignedUrls(pathSets, expiries, maxOps) ==
  /\ ops < maxOps
  /\ \E photoPaths \in pathSets, expiresIn \in expiries,
        forceRefresh \in BOOLEAN, redisDown \in BOOLEAN :
     \E answer \in [photoPaths -> SignAnswers] :
       LET hit(path) ==
             /\ getCachedData(redis, PhotoUrlKey(path), now, redisDown).found
             /\ redis[PhotoUrlKey(path)].expires_at > now
           cachedUrls == IF forceRefresh THEN {}
                         ELSE {path \in photoPaths : hit(path)}
           pathsToGenerate == photoPaths \ cachedUrls
           new == generateSignedUrlsBatch(pathsToGenerate, answer)
           signedFor(path) ==
             CHOOSE q \in redis[PhotoUrlKey(path)].payload.items : TRUE
           allUrls ==
             {[path |-> path, signed_for |-> signedFor(path)] :
                path \in cachedUrls \ new.urls}
             \cup {[path |-> path, signed_for |-> path] : path \in new.urls}
           noted(rec) ==
             [rec EXCEPT !.asked = photoPaths,
                         !.failed = {path \in pathsToGenerate :
                                       answer[path] # "url"},
                         !.urls = IF new.raised THEN {} ELSE allUrls]
       IN IF new.raised
          THEN /\ lastOp' = noted(Raised("batchGenerateSignedUrls", ""))
               /\ UNCHANGED redis
          ELSE /\ redis' = cacheSignedUrls(redis, new.urls, expiresIn, now,
                                           redisDown)
               /\ lastOp' =
                    noted([Returned("batchGenerateSignedUrls", "",
                                    [items |-> cachedUrls \cup new.urls,
                                     by |-> ""],
                                    cachedUrls # {}, FALSE)
                           EXCEPT !.hadEntry = cachedUrls # {},
                                  !.expiring =
                                     \E path \in cachedUrls :
                                       now + UrlExpiryBuffer
                                         >= redis[PhotoUrlKey(path)].expires_at])
  /\ ops' = ops + 1
  /\ UNCHANGED <<now, event_participants, albums>>
  /\ UNCHANGED notCacheVars

\* half a tick less half a second: with a whole tick it brings the clock into
\* the last second of a 30 minute TTL
LastSecondStep == CacheTickStep \div 2 - 500

\* time passes
CacheTick ==
  \E step \in {CacheTickStep, LastSecondStep} :
    /\ now + step <= MaxCacheTicks * CacheTickStep
    /\ now' = now + step
  /\ UNCHANGED <<redis, event_participants, albums, lastOp, ops>>
  /\ UNCHANGED notCacheVars

InitCache ==
  /\ now = 0
  /\ CacheAtRest
  /\ push_tokens = [t \in Tokens |-> NoRow]
  /\ token_times = [t \in Tokens |-> NoTimes]
  /\ notification_history = <<>>
  /\ cleanup = IdleCleanup
  /\ rateLimits = [k \in Users \X Types |-> NoLimits]
  /\ call = [c \in Slots |-> IdleCall]
  /\ started = 0
  /\ dispatchLog = [k \in Users \X Types |-> <<>>]
  /\ RegisterAtRest

NextCache ==
  \/ GetEventParticipants
  \/ AddParticipant
  \/ RemoveParticipant
  \/ GetEventAlbums
  \/ UpdateAlbum
  \/ DeleteAlbum
  \/ GetEventPhotoUrls
  \/ BatchGenerateSignedUrls({{"p1"}}, {ShortExpiry, DefaultExpiry}, MaxCacheOps)
  \/ CacheTick

SpecCache == InitCache /\ [][NextCache]_vars

(***************************************************************************)
(* Properties of the cache layer                                           *)
(***************************************************************************)
\* C3: a photo-URL read of the moderated event by the organizer is never
\* served a payload that an anonymous read cached, nor an anonymous read one
\* that the organizer's read cached (same sort and page).
C3_RolesNeverShareCachedPayload ==
  (lastOp.op = "getEventPhotoUrls" /\ lastOp.outcome = "returned" /\ lastOp.cached)
  => /\ lastOp.role = "organizer" => lastOp.payload.by # "anonymous"
     /\ lastOp.role = "anonymous" => lastOp.payload.by # "organizer"

\* an anonymous read served from the cache while the organizer's payload,
\* pending photo included, is cached too
C3_Witness ==
  /\ lastOp.op = "getEventPhotoUrls"
  /\ lastOp.role = "anonymous"
  /\ lastOp.cached
  /\ lastOp.payload.items = {"p1"}
  /\ LET k == PhotoKey(Event, "most_liked", "organizer", "moderated", "1", "50")
     IN Cached(redis, k, now) /\ redis[k].payload.items = {"p1", "p2"}

\* C4: when addParticipant, removeParticipant, updateAlbum or deleteAlbum has
\* changed the store and returned success, no entry under the resource's key
\* prefix is left in the cache.
C4_SuccessMeansInvalidated ==
  (lastOp.outcome = "returned" /\ lastOp.mutated)
  => /\ lastOp.op \in {"addParticipant", "removeParticipant"}
          => \A k \in KeysUnder("participants", Event) : ~Cached(redis, k, now)
     /\ lastOp.op \in {"updateAlbum", "deleteAlbum"}
          => \A k \in KeysUnder("album", Event) : ~Cached(redis, k, now)

\* C5: a participants, photo-URL or album read during which the store failed
\* while its key had a readable entry returns that entry tagged stale.
C5_StaleOnStoreFailure ==
  (/\ lastOp.op \in {"getEventParticipants", "getEventPhotoUrls", "getEventAlbums"}
   /\ lastOp.dbFailed
   /\ lastOp.hadEntry)
  => (lastOp.outcome = "returned" /\ lastOp.stale)

(***************************************************************************)
(* Token registration: storePushToken (lib/supabase.js)                    *)
(***************************************************************************)
\* storePushToken calls begun in one behaviour
MaxRegistrations == 3

RegTokens == {ExpoA, "dev1"}
RegPlatforms == {"android", "ios"}

\* the rows of push_tokens whose token column equals t: .eq('token', t)
RowsWithToken(rows, t) == {i \in DOMAIN rows : rows[i].token = t}

\* .select('id').eq('token', token).single(): data is the row when exactly
\* one row matches; with no row, with several rows or with a store error the
\* answer carries an error and data is null.  storePushToken reads data only.
SelectSingle(rows, t, storeError) ==
  ~storeError /\ Cardinality(RowsWithToken(rows, t)) = 1

\* .update({user_id, platform, ..., is_active: true}).eq('token', token)
UpdateToken(rows, userId, t, platform) ==
  [i \in DOMAIN rows |->
     IF rows[i].token = t
       THEN [rows[i] EXCEPT !.user_id = userId, !.platform = platform,
                            !.is_active = TRUE]
       ELSE rows[i]]

\* .insert({user_id, token, platform, ..., is_active: true})
InsertToken(rows, userId, t, platform) ==
  Append(rows, [token |-> t, user_id |-> userId, platform |-> platform,
                is_active |-> TRUE])

\* a request reaches storePushToken
RegStart(s) ==
  /\ reg[s].pc = "idle"
  /\ registrations < MaxRegistrations
  /\ \E u \in Users, t \in RegTokens, p \in RegPlatforms :
       reg' = [reg EXCEPT ![s] = [IdleReg EXCEPT !.pc = "select", !.userId = u,
                                                 !.token = t, !.platform = p]]
  /\ registrations' = registrations + 1
  /\ UNCHANGED token_rows
  /\ UNCHANGED notRegisterVars

\* the first await: does a row with this token exist
RegSelect(s) ==
  /\ reg[s].pc = "select"
  /\ \E storeError \in BOOLEAN :
       reg' = [reg EXCEPT ![s].pc = "write",
                          ![s].existing =
                             SelectSingle(token_rows, reg[s].token, storeError)]
  /\ UNCHANGED <<token_rows, registrations>>
  /\ UNCHANGED notRegisterVars

\* the second await: update when a row was seen, insert otherwise
RegWrite(s) ==
  /\ reg[s].pc = "write"
  /\ \E storeError \in BOOLEAN :
       /\ token_rows' =
            IF storeError THEN token_rows
            ELSE IF reg[s].existing
              THEN UpdateToken(token_rows, reg[s].userId, reg[s].token,
                               reg[s].platform)
              ELSE InsertToken(token_rows, reg[s].userId, reg[s].token,
                               reg[s].platform)
       /\ reg' = [reg EXCEPT ![s] = [IdleReg EXCEPT !.returned = ~storeError,
                                                    !.token = reg[s].token,
                                                    !.existing = reg[s].existing]]
  /\ UNCHANGED registrations
  /\ UNCHANGED notRegisterVars

InitRegister ==
  /\ RegisterAtRest
  /\ now = 0
  /\ push_tokens = [t \in Tokens |-> NoRow]
  /\ token_times = [t \in Tokens |-> NoTimes]
  /\ notification_history = <<>>
  /\ cleanup = IdleCleanup
  /\ rateLimits = [k \in Users \X Types |-> NoLimits]
  /\ call = [c \in Slots |-> IdleCall]
  /\ started = 0
  /\ dispatchLog = [k \in Users \X Types |-> <<>>]
  /\ CacheAtRest

NextRegister ==
  \E s \in Slots : RegStart(s) \/ RegSelect(s) \/ RegWrite(s)

SpecRegister == InitRegister /\ [][NextRegister]_vars

\* C11: whatever the interleaving of storePushToken calls, push_tokens holds
\* at most one row for any token string.
C11_OneRowPerToken ==
  \A t \in RegTokens : Cardinality(RowsWithToken(token_rows, t)) <= 1

(***************************************************************************)
(* sendBulkNotification (notification-service.js)                          *)
(***************************************************************************)
\* sendBulkNotification calls begun in one behaviour
MaxBulkRuns == 1
\* longest userIds array
MaxBulkUsers == 3
\* batchSize (50 in the source), scaled to the call slots
BulkBatchSize == Cardinality(Slots)
\* the pause between two batches, milliseconds
BulkDelay == 100

BulkUserLists == UNION {[1..n -> Users] : n \in 1..MaxBulkUsers}

\* userIds.slice(i, i + batchSize)
BulkBatch(userIds, i) ==
  [k \in 1..Min({BulkBatchSize, Len(userIds) - i}) |-> userIds[i + k]]

\* batch.map(userId => this.sendNotification(userId, type, data)): every call
\* of the batch runs to its first await
LaunchBatch(userIds, i, type, data) ==
  [c \in Slots |->
     IF c <= Len(BulkBatch(userIds, i))
       THEN Begin(BulkBatch(userIds, i)[c], type, data)
       ELSE IdleCall]

\* .then(result => ({ userId, ...result }))
\* .catch(error => ({ userId, success: false, error: error.message }))
BulkDetail(rec) ==
  IF rec.pc = "raised"
    THEN [userId |-> rec.userId, success |-> FALSE, reason |-> Undefined,
          error |-> "rejected"]
    ELSE [userId |-> rec.userId, success |-> rec.outcome.success,
          reason |-> rec.outcome.reason, error |-> rec.outcome.error]

\* batchResults.forEach(...)
RECURSIVE CollectBatch(_, _)
CollectBatch(results, details) ==
  IF details = <<>> THEN results
  ELSE CollectBatch(
         [successful |-> results.successful + (IF Head(details).success THEN 1 ELSE 0),
          failed |-> results.failed + (IF Head(details).success THEN 0 ELSE 1),
          details |-> Append(results.details, Head(details))],
         Tail(details))

\* the users getUserPushTokens has no row for
WithoutTokens(table) ==
  {u \in Users : getUserPushTokens(table, u, FALSE) = <<>>}

BulkStart ==
  /\ bulk.pc = "idle"
  /\ bulk.runs < MaxBulkRuns
  /\ \E userIds \in BulkUserLists, type \in Types, data \in [Fields -> FieldValues] :
       /\ bulk' = [IdleBulk EXCEPT !.pc = "batch", !.userIds = userIds,
                                   !.type = type, !.data = data,
                                   !.runs = bulk.runs + 1,
                                   !.noTokens = WithoutTokens(push_tokens)]
       /\ call' = LaunchBatch(userIds, 0, type, data)
  /\ UNCHANGED <<now, push_tokens, rateLimits, notification_history, started,
                 dispatchLog>>
  /\ UNCHANGED <<cleanupVars, cacheVars, registerVars, limiterVars, pagingVars,
                 historyVars, laterVars>>

\* a loop that goes on without awaiting the batch's promises
BulkCollectNoWait ==
  /\ bulk.pc = "batch"
  /\ bulk' = [bulk EXCEPT
                !.results = CollectBatch(bulk.results,
                   [c \in 1..Len(BulkBatch(bulk.userIds, bulk.i)) |->
                      BulkDetail(call[c])]),
                !.pc = IF bulk.i + BulkBatchSize < Len(bulk.userIds)
                         THEN "delay" ELSE "returned"]
  /\ UNCHANGED dispatchVars
  /\ UNCHANGED <<cleanupVars, cacheVars, registerVars, limiterVars, pagingVars,
                 historyVars, laterVars>>

\* await Promise.all(batchPromises) has settled: count the batch, then return
\* or pause before the next batch
BulkCollect ==
  /\ bulk.pc = "batch"
  /\ LET n == Len(BulkBatch(bulk.userIds, bulk.i))
         details == [c \in 1..n |-> BulkDetail(call[c])]
     IN /\ \A c \in 1..n : call[c].pc \in {"done", "raised"}
        /\ bulk' = [bulk EXCEPT
                      !.results = CollectBatch(bulk.results, details),
                      !.pc = IF bulk.i + BulkBatchSize < Len(bulk.userIds)
                               THEN "delay" ELSE "returned"]
  /\ UNCHANGED dispatchVars
  /\ UNCHANGED <<cleanupVars, cacheVars, registerVars, limiterVars, pagingVars,
                 historyVars, laterVars>>

\* the pause is over: the loop's next round
BulkNextBatch ==
  /\ bulk.pc = "delay"
  /\ bulk' = [bulk EXCEPT !.pc = "batch", !.i = bulk.i + BulkBatchSize,
                          !.noTokens = WithoutTokens(push_tokens)]
  /\ call' = LaunchBatch(bulk.userIds, bulk.i + BulkBatchSize, bulk.type, bulk.data)
  /\ now' = now + BulkDelay
  /\ UNCHANGED <<push_tokens, rateLimits, notification_history, started, dispatchLog>>
  /\ UNCHANGED <<cleanupVars, cacheVars, registerVars, limiterVars, pagingVars,
                 historyVars, laterVars>>

InitBulk ==
  /\ now = 0
  /\ push_tokens =
       [t \in Tokens |->
          CASE t = ExpoA -> Row("u1", "ios", "expo")
            [] t = "dev1" -> Row("u2", "android", "fcm")
            [] OTHER -> NoRow]
  /\ rateLimits = [k \in Users \X Types |-> NoLimits]
  /\ notification_history = <<>>
  /\ call = [c \in Slots |-> IdleCall]
  /\ started = 0
  /\ dispatchLog = [k \in Users \X Types |-> <<>>]
  /\ token_times = [t \in Tokens |-> NoTimes]
  /\ cleanup = IdleCleanup
  /\ CacheAtRest
  /\ RegisterAtRest

BulkCallStep(c) ==
  \/ ShouldSend(c)
  \/ Prefs(c)
  \/ GetTokens(c)
  \/ SendBucket(c)
  \/ Deactivate(c)
  \/ LogHistory(c)

NextBulk ==
  \/ BulkStart
  \/ BulkCollect
  \/ BulkNextBatch
  \/ \E c \in Slots : BulkCallStep(c)

SpecBulk == InitBulk /\ [][NextBulk]_vars

\* { success: true, ... }, { success: false, reason } or { success: false, error }
Structured(outcome) ==
  outcome.success \/ outcome.reason # Undefined \/ outcome.error # Undefined

\* C12: no sendNotification call ends by raising, each finished call holds a
\* structured result, and a returned sendBulkNotification holds one detail
\* per user id with successful + failed equal to their number.
C12_NeverPropagates ==
  /\ \A c \in Slots :
       /\ call[c].pc # "raised"
       /\ call[c].pc = "done" => Structured(call[c].outcome)
  /\ bulk.pc = "returned" =>
       /\ Len(bulk.results.details) = Len(bulk.userIds)
       /\ bulk.results.successful + bulk.results.failed = Len(bulk.userIds)
       /\ \A k \in 1..Len(bulk.userIds) :
            bulk.results.details[k].userId = bulk.userIds[k]

\* a bulk send over two batches has returned, its calls having ended in the
\* catch of sendNotification
C12_Witness ==
  /\ bulk.pc = "returned"
  /\ Len(bulk.userIds) = MaxBulkUsers
  /\ \E k \in 1..Len(bulk.results.details) :
       bulk.results.details[k].error # Undefined

\* the data object holds every field its type requires, whatever its value
HoldsRequiredFields(type, data) ==
  \A f \in RequiredFields(type) : f \in DOMAIN data /\ data[f] # "missing"

\* C13: a dispatch whose data holds every required field of its type never
\* ends in the validation or rendering error, and a dispatch whose data lacks
\* a required field ends in the validation error before it has made any
\* store or provider call.
C13_RequiredFieldsDecideValidation ==
  \A c \in Slots :
    call[c].entry = "sendNotification" =>
      IF HoldsRequiredFields(bulk.type, bulk.data)
        THEN call[c].outcome.error = Undefined
        ELSE /\ call[c].pc = "done"
             /\ call[c].outcome.error = "Missing required data"
             /\ call[c].providerCalls = 0
             /\ ~call[c].rateChecked

(***************************************************************************)
(* Further properties of the dispatch                                      *)
(***************************************************************************)
\* C14: the object an adapter's batch send returns for a token batch holds
\* a successCount and a failureCount whose sum is the number of tokens in
\* the batch.
C14_CountsSumToBatchSize ==
  \A c \in Slots :
    call[c].lastBatch.returned =>
      /\ call[c].lastBatch.counted
      /\ call[c].lastBatch.sum = call[c].lastBatch.size

\* C15: a token with the Expo prefix is given to the Expo adapter whatever
\* its platform; any other token is given to an FCM adapter when its platform
\* is android and to the APNs adapter when it is ios.  Once the sends of a
\* call are over every such token has been given to its adapter.
C15_RoutedByPrefixThenPlatform ==
  \A c \in Slots :
    LET rows == call[c].tokens
        Expected(t) ==
          IF StartsWithExponentPushToken(t.token) THEN {"expo"}
          ELSE IF t.platform = "android" THEN {"fcm", "fcm_v1"}
          ELSE IF t.platform = "ios" THEN {"ios"}
          ELSE {}
    IN /\ \A r \in call[c].routed : r[2] \in Expected(rows[r[1]])
       /\ (call[c].pc \in {"deactivate", "log", "done"}
           /\ call[c].outcome.error = Undefined)
            => \A i \in 1..Len(rows) :
                 Expected(rows[i]) # {} => \E r \in call[c].routed : r[1] = i

\* a dispatch has given an Expo-prefixed token declared ios to the Expo
\* adapter and a native android token to FCM
C15_Witness ==
  /\ call[1].pc = "done"
  /\ \E r \in call[1].routed :
       /\ r[2] = "expo"
       /\ call[1].tokens[r[1]].platform = "ios"
  /\ \E r \in call[1].routed : r[2] = "fcm"

\* C16: a payload served from the cache was built for the query options of
\* the read it is served to: every option the payload depends on is part of
\* the key.
C16_KeyDeterminesPayload ==
  (lastOp.outcome = "returned" /\ lastOp.cached /\ lastOp.payload.items # {})
  => lastOp.payload.by = lastOp.role

\* C17: no read is served from a cache a signed URL that is expired or is
\* within five minutes of its expiry.
C17_CacheHitUrlsNotExpiring ==
  (lastOp.outcome = "returned" /\ lastOp.cached) => ~lastOp.expiring

\* C18: a participants or album read made without forceRefresh while the
\* cache is reachable and holds the key's entry, written with a TTL that has
\* not elapsed and not invalidated since, returns the entry's payload tagged
\* cached; a read made when the key has no such entry is not served from the
\* cache unless the store failed.
C18_RoundTripWithinTtl ==
  (lastOp.op \in {"getEventParticipants", "getEventAlbums"} /\ ~lastOp.forced)
  => /\ lastOp.hadEntry =>
          /\ lastOp.outcome = "returned"
          /\ lastOp.cached /\ ~lastOp.stale
          /\ lastOp.payload =
               redis[IF lastOp.op = "getEventParticipants"
                     THEN ParticipantsKey(Event, "1", "20")
                     ELSE AlbumsKey(Event, "1", "50")].payload
     /\ (~lastOp.hadEntry /\ ~lastOp.dbFailed) => ~lastOp.cached

(***************************************************************************)
(* The cache layer's rate limiter: checkRateLimit -> incrementCounter      *)
(***************************************************************************)
\* checkRateLimit calls begun in one behaviour
MaxChecks == 4
\* the limiter's clock stops at MaxLimiterTicks ticks of LimiterTickStep ms
MaxLimiterTicks == 2
LimiterTickStep == 40000
\* CACHE_CONFIG.RATE_LIMIT.MAX_REQUESTS (100 in the source), scaled
RateCeiling == 2
\* CACHE_CONFIG.RATE_LIMIT.WINDOW, seconds
CounterWindow == 60

\* Redis drops a key when its expiry is reached; a key without expiry stays
LiveCounter(c, t) ==
  IF c.exists /\ (c.has_ttl => t < c.expires_at) THEN c ELSE NoCounter

\* client.incr(key)
Incr(c, t) ==
  [LiveCounter(c, t) EXCEPT !.exists = TRUE, !.count = LiveCounter(c, t).count + 1]

\* client.expire(key, ttlSeconds)
Expire(c, ttlSeconds, t) ==
  IF LiveCounter(c, t).exists
    THEN [LiveCounter(c, t) EXCEPT !.has_ttl = TRUE,
                                   !.expires_at = t + ttlSeconds * 1000]
    ELSE NoCounter

\* checkRateLimit's part after incrementCounter returned count: throw
\* 'Rate limit exceeded' when count > MAX_REQUESTS
Verdict(s, count) ==
  [limiter EXCEPT !.pc[s] = "idle",
                  !.last = [done |-> TRUE, usedUp |-> limiter.usedUp[s],
                            raised |-> count > RateCeiling, count |-> count]]

\* a request reaches checkRateLimit(identifier)
CheckStart(s) ==
  /\ limiter.pc[s] = "idle"
  /\ limiter.checks < MaxChecks
  /\ limiter' = [limiter EXCEPT !.pc[s] = "incr", !.checks = @ + 1]
  /\ UNCHANGED <<counter, bulk, pagingVars, historyVars, laterVars>>
  /\ UNCHANGED <<dispatchVars, cleanupVars, cacheVars, registerVars>>

\* incrementCounter, first command: INCR; a count above 1 is returned at
\* once, a failed command makes safeRedisOperation return the fallback 0
CheckIncr(s) ==
  /\ limiter.pc[s] = "incr"
  /\ \E redisDown \in BOOLEAN :
       LET used == /\ LiveCounter(counter, now).has_ttl
                   /\ LiveCounter(counter, now).count >= RateCeiling
           seen == [limiter EXCEPT !.usedUp[s] = used]
           count == Incr(counter, now).count
       IN IF redisDown
          THEN /\ limiter' = [Verdict(s, 0) EXCEPT !.usedUp[s] = used,
                                                   !.last.usedUp = used]
               /\ UNCHANGED counter
          ELSE /\ counter' = Incr(counter, now)
               /\ limiter' = IF count = 1 THEN [seen EXCEPT !.pc[s] = "expire"]
                             ELSE [Verdict(s, count) EXCEPT !.usedUp[s] = used,
                                                            !.last.usedUp = used]
  /\ UNCHANGED <<bulk, pagingVars, historyVars, laterVars>>
  /\ UNCHANGED <<dispatchVars, cleanupVars, cacheVars, registerVars>>

\* incrementCounter, second command after count === 1: EXPIRE
CheckExpire(s) ==
  /\ limiter.pc[s] = "expire"
  /\ \E redisDown \in BOOLEAN :
       IF redisDown
       THEN /\ limiter' = Verdict(s, 0)
            /\ UNCHANGED counter
       ELSE /\ counter' = Expire(counter, CounterWindow, now)
            /\ limiter' = Verdict(s, 1)
  /\ UNCHANGED <<bulk, pagingVars, historyVars, laterVars>>
  /\ UNCHANGED <<dispatchVars, cleanupVars, cacheVars, registerVars>>

\* time passes
LimiterTick ==
  /\ now < MaxLimiterTicks * LimiterTickStep
  /\ now' = now + LimiterTickStep
  /\ UNCHANGED <<push_tokens, rateLimits, notification_history, call, started,
                 dispatchLog>>
  /\ UNCHANGED <<cleanupVars, cacheVars, registerVars, bulk, limiterVars,
                 pagingVars, historyVars, laterVars>>

InitLimiter ==
  /\ now = 0
  /\ push_tokens = [t \in Tokens |-> NoRow]
  /\ rateLimits = [k \in Users \X Types |-> NoLimits]
  /\ notification_history = <<>>
  /\ call = [c \in Slots |-> IdleCall]
  /\ started = 0
  /\ dispatchLog = [k \in Users \X Types |-> <<>>]
  /\ token_times = [t \in Tokens |-> NoTimes]
  /\ cleanup = IdleCleanup
  /\ CacheAtRest
  /\ RegisterAtRest

NextLimiter ==
  \/ \E s \in Slots : CheckStart(s) \/ CheckIncr(s) \/ CheckExpire(s)
  \/ LimiterTick

SpecLimiter == InitLimiter /\ [][NextLimiter]_vars

\* C19: the counter key never exists with a positive count and no expiry.
C19_CounterAlwaysHasExpiry ==
  (counter.exists /\ counter.count > 0) => counter.has_ttl

\* C20: a rate-limit check made when the actor's counter of the running
\* window (the key is live and carries its expiry) had reached the ceiling
\* raises the rate-limit signal.
C20_CheckAfterCeilingRaises ==
  (limiter.last.done /\ limiter.last.usedUp) => limiter.last.raised

(***************************************************************************)
(* Properties of sendNotification's skips and failures                     *)
(***************************************************************************)
\* the step in which call c is turned away by isRateLimited
SkippedAsRateLimited(c) ==
  /\ call[c].pc = "prefs"
  /\ call'[c].pc = "done"
  /\ call'[c].outcome.reason = "rate_limited"

\* C21 as stated: the step that skips a call as rate limited adds one to the
\* count of the call's (userId, type).
C21_SkipIncrementsCounter ==
  [][\A c \in Slots :
       SkippedAsRateLimited(c) =>
         rateLimits'[RateKey(call[c].userId, call[c].type)].count =
           rateLimits[RateKey(call[c].userId, call[c].type)].count + 1]_vars

\* C21 amended: the step that skips a call as rate limited leaves the
\* rateLimits map as it was; only a call that went through sendToDevices
\* and the history write adds to the count.
C21_SkipLeavesCounter ==
  [][\A c \in Slots : SkippedAsRateLimited(c) => rateLimits' = rateLimits]_vars

\* a call was skipped as rate limited and the count of its key is the number
\* of dispatches sent for the key
C21_Witness ==
  \E c \in Slots :
    /\ call[c].pc = "done"
    /\ call[c].outcome.reason = "rate_limited"
    /\ rateLimits[RateKey(call[c].userId, call[c].type)].count =
         SentSince(dispatchLog[RateKey(call[c].userId, call[c].type)], 0)

\* C22: a dispatch whose history row could not be written (the insert
\* answered with an error, logNotificationHistory returned null) has returned
\* success with its delivery result: the devices reached, and no error.
C22_HistoryFailureStillSuccess ==
  \A c \in Slots :
    call[c].historyLost =>
      /\ call[c].pc = "done"
      /\ call[c].outcome.success
      /\ call[c].outcome.historyId = "null"
      /\ call[c].outcome.error = Undefined
      /\ call[c].outcome.devicesReached = call[c].results.successful

\* a dispatch that reached a device and whose history row was not written
C22_Witness ==
  \E c \in Slots :
    /\ call[c].pc = "done"
    /\ call[c].historyLost
    /\ call[c].outcome.devicesReached > 0
    /\ notification_history = <<>>

\* a call of sendNotification(userId, type, data) that the policy allowed, as
\* it stands before getUserNotificationPreferences
AllowedCall(userId, type, answer) ==
  [IdleCall EXCEPT !.entry = "sendNotification", !.userId = userId,
                   !.type = type, !.pc = "prefs", !.policy = answer]

\* C23: a dispatch whose should-send evaluation failed (the rpc answered
\* with an error, or the call threw) stands exactly where a dispatch the
\* policy allowed stands: before the preferences read, nothing skipped, no
\* outcome, no other difference in the call.
C23_PolicyFailureProceedsAsAllowed ==
  \A c \in Slots :
    call[c].policy \in {"error", "throw"} =>
      call[c] = AllowedCall(call[c].userId, call[c].type, call[c].policy)

\* a dispatch whose policy evaluation threw, about to read the preferences
C23_Witness ==
  \E c \in Slots : call[c].policy = "throw" /\ call[c].pc = "prefs"

(***************************************************************************)
(* Properties of sendBulkNotification                                      *)
(***************************************************************************)
\* the per-user dispatches that have started and not yet settled
InFlight == {c \in Slots : call[c].pc \notin {"idle", "done", "raised"}}

\* C24: the dispatches in flight are dispatches of the current chunk, a chunk
\* holds at most BulkBatchSize users, and the step that launches the next
\* chunk is taken only when no dispatch of the previous chunk is in flight.
C24_ChunksRunOneAfterAnother ==
  /\ [](/\ Len(BulkBatch(bulk.userIds, bulk.i)) <= BulkBatchSize
        /\ Cardinality(InFlight) <= BulkBatchSize
        /\ \A c \in InFlight :
             /\ c <= Len(BulkBatch(bulk.userIds, bulk.i))
             /\ call[c].userId = bulk.userIds[bulk.i + c])
  /\ [][bulk'.i # bulk.i => InFlight = {}]_vars

\* the second chunk is running after the first was counted in full
C24_Witness ==
  /\ bulk.pc = "batch"
  /\ bulk.i = BulkBatchSize
  /\ Len(bulk.results.details) = BulkBatchSize
  /\ InFlight # {}

\* call c is a settled dispatch of the running bulk send, to a user who had
\* no active token when the batch was launched
SettledWithoutTokens(c) ==
  /\ bulk.pc \in {"batch", "delay", "returned"}
  /\ c <= Len(BulkBatch(bulk.userIds, bulk.i))
  /\ call[c].pc = "done"
  /\ call[c].userId \in bulk.noTokens

\* every user id was counted once
CountedOnce ==
  bulk.pc = "returned" =>
    /\ bulk.results.successful + bulk.results.failed = Len(bulk.userIds)
    /\ bulk.results.successful =
         Cardinality({k \in 1..Len(bulk.results.details) :
                        bulk.results.details[k].success})
    /\ \A k \in 1..Len(bulk.userIds) :
         bulk.results.details[k].userId = bulk.userIds[k]

\* a step of a dispatch to a user without tokens writes to no store and to
\* no other call, and touches the rate limit of its own key only
LeavesOthersAlone(c) ==
  (/\ call[c].pc \notin {"idle", "done", "raised"}
   /\ call[c].userId \in bulk.noTokens
   /\ call'[c] # call[c])
  => /\ push_tokens' = push_tokens
     /\ notification_history' = notification_history
     /\ \A d \in Slots \ {c} : call'[d] = call[d]
     /\ \A k \in Users \X Types :
          k # RateKey(call[c].userId, call[c].type) => rateLimits'[k] = rateLimits[k]

\* C25 as stated: every user id is counted once, and the dispatch to a user
\* without active tokens is a failure with reason no_tokens.
C25_NoTokensCountedAsNoTokens ==
  /\ CountedOnce
  /\ \A c \in Slots :
       SettledWithoutTokens(c) =>
         ~call[c].outcome.success /\ call[c].outcome.reason = "no_tokens"

\* C25 amended: every user id is counted once; the dispatch to a user
\* without active tokens is a failure, with reason no_tokens when it got as
\* far as the token read (it was not turned away before by the data check,
\* the preferences or the rate limit); and its steps leave the stores and
\* the other calls as they were.
C25_NoTokensCountedAsFailed ==
  /\ [](/\ CountedOnce
        /\ \A c \in Slots :
             SettledWithoutTokens(c) =>
               /\ ~call[c].outcome.success
               /\ \/ call[c].outcome.reason \in SkipReasons
                  \/ call[c].outcome.error = "Missing required data"
               /\ (call[c].rateChecked /\ call[c].outcome.reason # "rate_limited")
                    => call[c].outcome.reason = "no_tokens")
  /\ [][\A c \in Slots : LeavesOthersAlone(c)]_vars

\* three user ids, two counted as successful and one, who had no active
\* token, as failed with reason no_tokens
C25_Witness ==
  /\ bulk.pc = "returned"
  /\ bulk.results.successful = 2
  /\ bulk.results.failed = 1
  /\ \E c \in Slots :
       SettledWithoutTokens(c) /\ call[c].outcome.reason = "no_tokens"

\* C26: no (event, user) pair ever has more than one participation row, and
\* an addParticipant call for a pair that already has its row, the store
\* answering, returns the 'User already a participant' object without
\* raising and leaves the single row.
C26_AddParticipantTwice ==
  /\ \A u \in Users : event_participants[u] <= 1
  /\ (lastOp.op = "addParticipant" /\ lastOp.dup /\ ~lastOp.dbFailed) =>
       /\ lastOp.outcome = "returned"
       /\ lastOp.message = "User already a participant"
       /\ event_participants[lastOp.user] = 1

\* u2 was added and then added again
C26_Witness ==
  /\ lastOp.op = "addParticipant"
  /\ lastOp.user = "u2"
  /\ lastOp.dup
  /\ lastOp.outcome = "returned"
  /\ event_participants["u2"] = 1

(***************************************************************************)
(* batchGenerateSignedUrls over several paths                              *)
(***************************************************************************)
\* batchGenerateSignedUrls calls in one behaviour
MaxSignOps == 2

NextSign ==
  \/ BatchGenerateSignedUrls({Paths}, {DefaultExpiry}, MaxSignOps)
  \/ CacheTick

SpecSign == InitCache /\ [][NextSign]_vars

\* C27: a batchGenerateSignedUrls call returns, whatever the storage
\* provider did for single paths: its result holds no path the provider
\* failed for and every other path it was asked for, and nothing else.
C27_PerPathFailureNotPropagated ==
  lastOp.op = "batchGenerateSignedUrls" =>
    /\ lastOp.outcome = "returned"
    /\ lastOp.payload.items = lastOp.asked \ lastOp.failed

\* three paths asked for, the provider failed for one, the two others came
\* back
C27_Witness ==
  /\ lastOp.op = "batchGenerateSignedUrls"
  /\ lastOp.outcome = "returned"
  /\ lastOp.asked = Paths
  /\ Cardinality(lastOp.failed) = 1
  /\ Cardinality(lastOp.payload.items) = 2

(***************************************************************************)
(* fetchEventPhotos: pagination (photo-url-cache.js)                       *)
(***************************************************************************)
\* maxPhotos (200 in the source), scaled
MaxPhotos == 4
\* photos of the event in the store, pages and page sizes asked for
MaxStored == 7
MaxPage == 4
MaxLimit == 3

\* a range that is not capped
SafeEndUncapped(offset, limit) ==
  offset + limit - 1

\* safeEnd = Math.min(offset + limit - 1, maxPhotos - 1)
SafeEnd(offset, limit) ==
  Min({offset + limit - 1, MaxPhotos - 1})

\* query.range(from, to) over the stored rows in the query's order: the ranks
\* (1 is first) of the rows at the 0-based positions from..to
Range0(stored, from, to) ==
  {r \in 1..stored : from + 1 <= r /\ r <= to + 1}

\* fetchEventPhotos(eventId, page, limit, userId, sortBy, event) from the
\* sort on: the photos as ranks in the order sortBy asks for
fetchEventPhotosPage(stored, page, limit, sortBy, dbFails) ==
  LET offset == (page - 1) * limit
      asked == [NoPaging EXCEPT !.stored = stored, !.sortBy = sortBy,
                                !.offset = offset, !.limit = limit]
  IN IF sortBy = "most_liked" /\ offset >= MaxPhotos
     THEN [asked EXCEPT !.outcome = "returned", !.totalCount = MaxPhotos]
     ELSE IF dbFails
     THEN [asked EXCEPT !.outcome = "raised", !.queried = TRUE]
     ELSE IF sortBy = "most_liked"
     THEN [asked EXCEPT !.outcome = "returned", !.queried = TRUE,
                        !.photos = Range0(stored, offset, SafeEnd(offset, limit)),
                        !.totalCount = Min({stored, MaxPhotos})]
     ELSE [asked EXCEPT !.outcome = "returned", !.queried = TRUE,
                        !.photos = Range0(stored, offset, offset + limit - 1),
                        !.totalCount = stored]

\* a photo is uploaded to the event
UploadPhoto ==
  /\ paging.stored < MaxStored
  /\ paging' = [paging EXCEPT !.stored = @ + 1]
  /\ UNCHANGED <<dispatchVars, cleanupVars, cacheVars, registerVars, bulk,
                 limiterVars, historyVars, laterVars>>

FetchEventPhotos ==
  /\ \E page \in 1..MaxPage, limit \in 1..MaxLimit,
        sortBy \in {"most_liked", "newest"}, dbFails \in BOOLEAN :
       paging' = fetchEventPhotosPage(paging.stored, page, limit, sortBy, dbFails)
  /\ UNCHANGED <<dispatchVars, cleanupVars, cacheVars, registerVars, bulk,
                 limiterVars, historyVars, laterVars>>

NextPaging == UploadPhoto \/ FetchEventPhotos

SpecPaging == InitLimiter /\ [][NextPaging]_vars

\* C28: a most-liked read that returned holds no photo ranked beyond
\* MaxPhotos, and one whose offset is MaxPhotos or more holds no photo and
\* did not run the photo query.
C28_MostLikedCappedAtMaxPhotos ==
  (paging.sortBy = "most_liked" /\ paging.outcome = "returned") =>
    /\ \A r \in paging.photos : r <= MaxPhotos
    /\ paging.offset >= MaxPhotos => (paging.photos = {} /\ ~paging.queried)

\* a most-liked page that the cap cut short of photos the store holds
C28_Witness ==
  /\ paging.sortBy = "most_liked"
  /\ paging.outcome = "returned"
  /\ paging.stored > MaxPhotos
  /\ paging.offset < MaxPhotos
  /\ paging.offset + paging.limit > MaxPhotos
  /\ MaxPhotos \in paging.photos

(***************************************************************************)
(* Repeated dispatches to a token that keeps failing                       *)
(***************************************************************************)
\* sendNotification calls begun in one behaviour of SpecRetry
MaxRetryCalls == 4

InitRetry ==
  /\ now = 0
  /\ push_tokens = [t \in Tokens |->
                      IF t = ExpoA THEN Row("u1", "ios", "expo") ELSE NoRow]
  /\ rateLimits = [k \in Users \X Types |-> NoLimits]
  /\ notification_history = <<>>
  /\ call = [c \in Slots |-> IdleCall]
  /\ started = 0
  /\ dispatchLog = [k \in Users \X Types |-> <<>>]
  /\ token_times = [t \in Tokens |-> NoTimes]
  /\ cleanup = IdleCleanup
  /\ CacheAtRest
  /\ token_rows = <<>>
  /\ reg = [s \in Slots |-> IdleReg]
  /\ registrations = 0
  /\ bulk = IdleBulk
  /\ counter = NoCounter
  /\ limiter = IdleLimiter
  /\ paging = NoPaging
  /\ token_failures = [NoFailures EXCEPT !.kept = TRUE]
  /\ LaterAtRest

NextRetry ==
  \/ StartWith(1, {"u1"}, {"peak_activity"}, {[f \in Fields |-> "truthy"]},
               MaxRetryCalls)
  \/ ShouldSend(1)
  \/ Prefs(1)
  \/ GetTokens(1)
  \/ SendBucket(1)
  \/ Deactivate(1)
  \/ LogHistory(1)
  \/ Tick

SpecRetry == InitRetry /\ [][NextRetry]_vars

\* C29: no batch send hands a provider a token that has failed delivery
\* FailureLimit times or more.
C29_WornTokenIsSkipped ==
  [][\A c \in Slots :
       \A t \in call'[c].attempted \ call[c].attempted :
         token_failures.count[t] < FailureLimit]_vars

\* the dispatches of the running batch for (userId, type) that reached a
\* provider; a batch runs within one window of the key
ReachedProvider(userId, type) ==
  {c \in Slots : /\ call[c].entry = "sendNotification"
                 /\ call[c].userId = userId
                 /\ call[c].type = type
                 /\ call[c].providerCalls > 0}

\* C30: of the overlapping dispatches for one (userId, type), at most
\* maxRequests(type) reach a provider within the window.
C30_OverlappingCallsWithinCeiling ==
  \A userId \in Users, type \in Types :
    Cardinality(ReachedProvider(userId, type)) <= maxRequests(type)

(***************************************************************************)
(* getEventParticipants await by await, overlapping the mutations          *)
(***************************************************************************)
\* reads begun at most
MaxReads == 2

\* fetchParticipantsFromDatabase: the event's participants as the table
\* holds them
fetchParticipantsFromDatabase(table) ==
  [items |-> {u \in Users : table[u] > 0}, by |-> ""]

\* getEventParticipants up to `await getWithAge(cacheKey)`: a live entry is
\* returned, otherwise the call goes on to the database
ReadCheck ==
  /\ reader.pc \in {"idle", "done"}
  /\ reader.reads < MaxReads
  /\ \E forceRefresh \in BOOLEAN, redisDown \in BOOLEAN :
       LET cacheKey == ParticipantsKey(Event, "1", "20")
           cachedData == getWithAge(redis, cacheKey, now, redisDown)
           begun == [IdleReader EXCEPT !.reads = reader.reads + 1,
                                       !.forceRefresh = forceRefresh]
       IN reader' =
            IF ~forceRefresh /\ cachedData.found /\ ~cachedData.is_expired
            THEN [begun EXCEPT !.pc = "done", !.outcome = "cached",
                               !.payload = cachedData.payload]
            ELSE [begun EXCEPT !.pc = "miss"]
  /\ UNCHANGED <<dispatchVars, cleanupVars, cacheVars, registerVars, bulk,
                 limiterVars, pagingVars, historyVars, queueVars>>

\* `await fetchParticipantsFromDatabase(...)`; on an error the catch block
\* serves the entry still under the key, or rethrows
ReadFetch ==
  /\ reader.pc = "miss"
  /\ \E dbFails \in BOOLEAN, redisDown \in BOOLEAN :
       LET cacheKey == ParticipantsKey(Event, "1", "20")
           staleData == getCachedData(redis, cacheKey, now, redisDown)
       IN reader' =
            IF dbFails
            THEN IF staleData.found
                 THEN [reader EXCEPT !.pc = "done", !.outcome = "stale",
                                     !.payload = staleData.payload]
                 ELSE [reader EXCEPT !.pc = "done", !.outcome = "raised"]
            ELSE [reader EXCEPT
                    !.pc = "fetched",
                    !.result = fetchParticipantsFromDatabase(event_participants)]
  /\ UNCHANGED <<dispatchVars, cleanupVars, cacheVars, registerVars, bulk,
                 limiterVars, pagingVars, historyVars, queueVars>>

\* `await setWithAutoExpiry(cacheKey, result, TTL)`, the metadata update and
\* the return
ReadStore ==
  /\ reader.pc = "fetched"
  /\ \E redisDown \in BOOLEAN :
       LET cacheKey == ParticipantsKey(Event, "1", "20")
           result == reader.result
       IN /\ redis' =
               setWithAutoExpiry(
                 setWithAutoExpiry(redis, cacheKey, result, ParticipantsTTL,
                                   now, redisDown),
                 ParticipantsMetadataKey(Event),
                 [items |-> {}, by |-> ""], MetadataTTL, now, redisDown)
          /\ reader' = [reader EXCEPT !.pc = "done", !.outcome = "database",
                                      !.payload = result,
                                      !.wrote = ~redisDown]
  /\ UNCHANGED <<now, event_participants, albums, lastOp, ops>>
  /\ UNCHANGED <<dispatchVars, cleanupVars, registerVars, bulk, limiterVars,
                 pagingVars, historyVars, queueVars>>

\* the reads overlap mutations whose invalidation reaches Redis
NextRace ==
  \/ ReadCheck
  \/ ReadFetch
  \/ ReadStore
  \/ AddParticipantWith({FALSE})
  \/ RemoveParticipantWith({FALSE})
  \/ CacheTick

SpecRace == InitCache /\ [][NextRace]_vars

\* C31: once a mutation's invalidation has completed and the read has
\* returned, the list that the read left under the participants key is the
\* list of the table, never the list from before the mutation.
C31_ReadLeavesNoPreMutationList ==
  LET cacheKey == ParticipantsKey(Event, "1", "20")
  IN (/\ reader.pc = "done"
      /\ reader.wrote
      /\ Cached(redis, cacheKey, now)
      /\ redis[cacheKey].payload = reader.result)
     => reader.result = fetchParticipantsFromDatabase(event_participants)

(***************************************************************************)
(* processWebhookQueue, one action per await, runs overlapping             *)
(***************************************************************************)
\* runs each processor begins at most
MaxRunsEach == 2

\* .lt('retry_count', 3) and `newRetryCount >= 3`
RetryLimit == 3

\* .order('created_at', { ascending: true })
WebhookOrder == <<"w1", "w2">>

\* the rows a select hands to the run, as they were when selected
SnapshotOf(table, ids) ==
  [k \in 1..Len(ids) |-> [id |-> ids[k], retry_count |-> table[ids[k]].retry_count]]

\* .eq('status', 'pending').lt('retry_count', 3).order('created_at').limit(50)
SelectPendingWebhooks(table) ==
  LET selected(w) == table[w].status = "pending" /\ table[w].retry_count < RetryLimit
  IN SnapshotOf(table, SelectSeq(WebhookOrder, selected))

\* the row the run is at
Current(r) == run[r].batch[run[r].i].id

\* the run after the row it is at: the next row of its batch, or the return
NextRow(rec) ==
  [rec EXCEPT !.pc = IF rec.i < Len(rec.batch) THEN "mark" ELSE "done",
              !.i = rec.i + 1, !.threw = FALSE]

\* processWebhookQueue up to the select of the pending rows; a failed select
\* or an empty result returns 0
WebhookSelect(r, storeStates) ==
  /\ run[r].pc \in {"idle", "done"}
  /\ run[r].queue \in {"", "webhook"}
  /\ run[r].started < MaxRunsEach
  /\ \E storeFails \in storeStates :
       LET webhooks == IF storeFails THEN <<>>
                       ELSE SelectPendingWebhooks(webhook_queue)
       IN run' = [run EXCEPT ![r] =
                    [IdleRun EXCEPT !.started = run[r].started + 1,
                                    !.queue = "webhook",
                                    !.batch = webhooks,
                                    !.i = 1,
                                    !.pc = IF webhooks = <<>> THEN "done"
                                           ELSE "mark"]]
  /\ UNCHANGED <<webhook_queue, notification_queue>>
  /\ UNCHANGED <<dispatchVars, cleanupVars, cacheVars, registerVars, bulk,
                 limiterVars, pagingVars, historyVars, raceVars>>

\* update({ status: 'processing' }).eq('id', webhook.id); the answer of the
\* update is not looked at
WebhookMark(r, storeStates) ==
  /\ run[r].queue = "webhook"
  /\ run[r].pc = "mark"
  /\ \E storeFails \in storeStates :
       webhook_queue' =
         IF storeFails THEN webhook_queue
         ELSE [webhook_queue EXCEPT ![Current(r)].status = "processing"]
  /\ run' = [run EXCEPT ![r].pc = "payload"]
  /\ UNCHANGED notification_queue
  /\ UNCHANGED <<dispatchVars, cleanupVars, cacheVars, registerVars, bulk,
                 limiterVars, pagingVars, historyVars, raceVars>>

\* await processWebhookPayload(webhook.payload): it returns or throws
WebhookPayload(r) ==
  /\ run[r].queue = "webhook"
  /\ run[r].pc = "payload"
  /\ \E throws \in BOOLEAN :
       run' = [run EXCEPT ![r].pc = "settle", ![r].threw = throws]
  /\ webhook_queue' =
       [webhook_queue EXCEPT
          ![Current(r)].attempts = @ + 1,
          ![Current(r)].late = @ \/ webhook_queue[Current(r)].settled]
  /\ UNCHANGED notification_queue
  /\ UNCHANGED <<dispatchVars, cleanupVars, cacheVars, registerVars, bulk,
                 limiterVars, pagingVars, historyVars, raceVars>>

\* what the run writes for the row: sent, or in the catch the retry count of
\* the selected row plus one with failed_permanent from RetryLimit on
WebhookUpdate(row, selected, threw) ==
  LET newRetryCount == selected.retry_count + 1
  IN IF ~threw THEN [row EXCEPT !.status = "sent", !.settled = TRUE]
     ELSE IF newRetryCount >= RetryLimit
     THEN [row EXCEPT !.status = "failed_permanent",
                      !.retry_count = newRetryCount, !.settled = TRUE]
     ELSE [row EXCEPT !.status = "pending", !.retry_count = newRetryCount]

\* the update after the payload, the 100 ms pause and the step to the next
\* row; the answer of the update is not looked at
WebhookSettle(r, storeStates) ==
  /\ run[r].queue = "webhook"
  /\ run[r].pc = "settle"
  /\ \E storeFails \in storeStates :
       webhook_queue' =
         IF storeFails THEN webhook_queue
         ELSE [webhook_queue EXCEPT
                 ![Current(r)] = WebhookUpdate(@, run[r].batch[run[r].i],
                                               run[r].threw)]
  /\ run' = [run EXCEPT ![r] =
               [NextRow(run[r]) EXCEPT
                  !.processedCount = IF run[r].threw THEN @ ELSE @ + 1]]
  /\ UNCHANGED notification_queue
  /\ UNCHANGED <<dispatchVars, cleanupVars, cacheVars, registerVars, bulk,
                 limiterVars, pagingVars, historyVars, raceVars>>

\* two webhook rows wait in the queue
InitQueue ==
  /\ now = 0
  /\ push_tokens = [t \in Tokens |-> NoRow]
  /\ rateLimits = [k \in Users \X Types |-> NoLimits]
  /\ notification_history = <<>>
  /\ call = [c \in Slots |-> IdleCall]
  /\ started = 0
  /\ dispatchLog = [k \in Users \X Types |-> <<>>]
  /\ token_times = [t \in Tokens |-> NoTimes]
  /\ cleanup = IdleCleanup
  /\ CacheAtRest
  /\ token_rows = <<>>
  /\ reg = [s \in Slots |-> IdleReg]
  /\ registrations = 0
  /\ bulk = IdleBulk
  /\ counter = NoCounter
  /\ limiter = IdleLimiter
  /\ paging = NoPaging
  /\ token_failures = NoFailures
  /\ reader = IdleReader
  /\ webhook_queue = [w \in WebhookIds |-> [NoWebhook EXCEPT !.status = "pending"]]
  /\ notification_queue = [n \in NotificationIds |-> NoNotification]
  /\ run = [r \in Runs |-> IdleRun]

\* the cron handler and the background handler run processWebhookQueue
\* whenever they are called; the store answers every statement
NextQueue ==
  \E r \in Runs :
    \/ WebhookSelect(r, {FALSE})
    \/ WebhookMark(r, {FALSE})
    \/ WebhookPayload(r)
    \/ WebhookSettle(r, {FALSE})

SpecQueue == InitQueue /\ [][NextQueue]_vars

\* the runs that are between marking a row as processing and settling it
ProcessingRuns(w) ==
  {r \in Runs : /\ run[r].queue = "webhook"
                /\ run[r].pc \in {"payload", "settle"}
                /\ Current(r) = w}

\* C32: a webhook row is processed by at most one processor run at a time.
C32_OneRunPerRow ==
  \A w \in WebhookIds : Cardinality(ProcessingRuns(w)) <= 1

\* one processor whose statements against the store may fail
NextQueueFaulty ==
  \/ WebhookSelect(1, BOOLEAN)
  \/ WebhookMark(1, BOOLEAN)
  \/ WebhookPayload(1)
  \/ WebhookSettle(1, BOOLEAN)

\* a run that has begun goes on to its return: every await of the loop
\* comes back
SpecQueueFair ==
  /\ InitQueue
  /\ [][NextQueueFaulty]_vars
  /\ WF_vars(WebhookMark(1, BOOLEAN))
  /\ WF_vars(WebhookPayload(1))
  /\ WF_vars(WebhookSettle(1, BOOLEAN))

\* C33: a row that a run has marked as processing eventually leaves that
\* status; no row stays in processing forever.
C33_ProcessingEventuallyLeaves ==
  \A w \in WebhookIds :
    (webhook_queue[w].status = "processing")
      ~> (webhook_queue[w].status # "processing")

\* C34: a webhook row is attempted at most RetryLimit times: its retry_count
\* never exceeds RetryLimit, and once it is sent or failed_permanent it is
\* never processed again.
C34_AtMostThreeAttempts ==
  \A w \in WebhookIds :
    /\ webhook_queue[w].retry_count <= RetryLimit
    /\ webhook_queue[w].attempts <= RetryLimit
    /\ ~webhook_queue[w].late

(***************************************************************************)
(* processNotificationQueue, one action per await                          *)
(***************************************************************************)
\* runs of the notification processor begun at most
MaxNotifyRuns == 3

\* updateData.retry_count * 5 * 60 * 1000
Backoff(retry_count) == retry_count * 5 * 60 * 1000

\* .order('priority', { ascending: false }).order('created_at')
NotificationOrder == <<"n1">>

\* .eq('status', 'pending') ... .limit(100)
SelectPendingNotifications(table) ==
  LET selected(n) == table[n].status = "pending"
  IN SnapshotOf(table, SelectSeq(NotificationOrder, selected))

\* processNotificationQueue up to the select of the pending rows; a failed
\* select or an empty result returns 0
NotificationSelect(r, storeStates) ==
  /\ run[r].pc \in {"idle", "done"}
  /\ run[r].queue \in {"", "notification"}
  /\ run[r].started < MaxNotifyRuns
  /\ \E storeFails \in storeStates :
       LET queuedNotifications ==
             IF storeFails THEN <<>>
             ELSE SelectPendingNotifications(notification_queue)
       IN run' = [run EXCEPT ![r] =
                    [IdleRun EXCEPT !.started = run[r].started + 1,
                                    !.queue = "notification",
                                    !.batch = queuedNotifications,
                                    !.i = 1,
                                    !.pc = IF queuedNotifications = <<>>
                                           THEN "done" ELSE "mark"]]
  /\ UNCHANGED <<webhook_queue, notification_queue>>
  /\ UNCHANGED <<dispatchVars, cleanupVars, cacheVars, registerVars, bulk,
                 limiterVars, pagingVars, historyVars, raceVars>>

\* update({ status: 'processing', processing_started_at }).eq('id', ...)
NotificationMark(r, storeStates) ==
  /\ run[r].queue = "notification"
  /\ run[r].pc = "mark"
  /\ \E storeFails \in storeStates :
       notification_queue' =
         IF storeFails THEN notification_queue
         ELSE [notification_queue EXCEPT ![Current(r)].status = "processing"]
  /\ run' = [run EXCEPT ![r].pc = "payload"]
  /\ UNCHANGED webhook_queue
  /\ UNCHANGED <<dispatchVars, cleanupVars, cacheVars, registerVars, bulk,
                 limiterVars, pagingVars, historyVars, raceVars>>

\* notificationService.sendNotification(user_id, notification_type, data) is
\* called for the row (of user u1, type peak_activity, with its data) and
\* runs in the run's slot up to its first await
NotificationSend(r) ==
  /\ run[r].queue = "notification"
  /\ run[r].pc = "payload"
  /\ call[r].pc \in {"idle", "done"}
  /\ call' = [call EXCEPT ![r] =
                Begin("u1", "peak_activity", [f \in Fields |-> "truthy"])]
  /\ started' = started + 1
  /\ notification_queue' =
       [notification_queue EXCEPT
          ![Current(r)].early = @ \/ now < notification_queue[Current(r)].scheduled_for]
  /\ run' = [run EXCEPT ![r].pc = "settle"]
  /\ UNCHANGED <<now, push_tokens, rateLimits, notification_history, dispatchLog>>
  /\ UNCHANGED webhook_queue
  /\ UNCHANGED <<cleanupVars, cacheVars, registerVars, bulk,
                 limiterVars, pagingVars, historyVars, raceVars>>

\* what the run writes for the row: sent with devices_reached when
\* result.success, otherwise the retry count of the selected row plus one,
\* pending with a backoff below RetryLimit and failed from it on
NotificationUpdate(row, selected, result, t) ==
  LET retry_count == selected.retry_count + 1
  IN IF result.success
     THEN [row EXCEPT !.status = "sent",
                      !.devices_reached = result.devicesReached]
     ELSE IF retry_count < RetryLimit
     THEN [row EXCEPT !.status = "pending", !.retry_count = retry_count,
                      !.scheduled_for = t + Backoff(retry_count)]
     ELSE [row EXCEPT !.status = "failed", !.retry_count = retry_count]

\* sendNotification has returned: the update of the row, the 100 ms pause and
\* the step to the next row; the answer of the update is not looked at
NotificationSettle(r, storeStates) ==
  /\ run[r].queue = "notification"
  /\ run[r].pc = "settle"
  /\ call[r].pc = "done"
  /\ \E storeFails \in storeStates :
       notification_queue' =
         IF storeFails THEN notification_queue
         ELSE [notification_queue EXCEPT
                 ![Current(r)] = NotificationUpdate(@, run[r].batch[run[r].i],
                                                    call[r].outcome, now)]
  /\ run' = [run EXCEPT ![r] =
               [NextRow(run[r]) EXCEPT !.processedCount = @ + 1]]
  /\ UNCHANGED webhook_queue
  /\ UNCHANGED <<dispatchVars, cleanupVars, cacheVars, registerVars, bulk,
                 limiterVars, pagingVars, historyVars, raceVars>>

\* one notification for u1, who holds one active token, waits in the queue
InitNotify ==
  /\ now = 0
  /\ push_tokens = [t \in Tokens |->
                      IF t = ExpoA THEN Row("u1", "ios", "expo") ELSE NoRow]
  /\ rateLimits = [k \in Users \X Types |-> NoLimits]
  /\ notification_history = <<>>
  /\ call = [c \in Slots |-> IdleCall]
  /\ started = 0
  /\ dispatchLog = [k \in Users \X Types |-> <<>>]
  /\ token_times = [t \in Tokens |-> NoTimes]
  /\ cleanup = IdleCleanup
  /\ CacheAtRest
  /\ token_rows = <<>>
  /\ reg = [s \in Slots |-> IdleReg]
  /\ registrations = 0
  /\ bulk = IdleBulk
  /\ counter = NoCounter
  /\ limiter = IdleLimiter
  /\ paging = NoPaging
  /\ token_failures = NoFailures
  /\ reader = IdleReader
  /\ webhook_queue = [w \in WebhookIds |-> NoWebhook]
  /\ notification_queue =
       [n \in NotificationIds |-> [NoNotification EXCEPT !.status = "pending"]]
  /\ run = [r \in Runs |-> IdleRun]

\* the cron handler runs processNotificationQueue, one run after the other
NextNotify ==
  \/ NotificationSelect(1, BOOLEAN)
  \/ NotificationMark(1, BOOLEAN)
  \/ NotificationSend(1)
  \/ ShouldSend(1)
  \/ Prefs(1)
  \/ GetTokens(1)
  \/ SendBucket(1)
  \/ Deactivate(1)
  \/ LogHistory(1)
  \/ NotificationSettle(1, BOOLEAN)
  \/ Tick

SpecNotify == InitNotify /\ [][NextNotify]_vars

\* C35: a queued notification that was rescheduled with a backoff is not
\* dispatched again before its scheduled_for time.
C35_NotBeforeScheduledFor ==
  \A n \in NotificationIds : ~notification_queue[n].early

\* C36: a queued notification is marked sent only if its dispatch delivered
\* to at least one device.
C36_SentOnlyIfDelivered ==
  \A n \in NotificationIds :
    notification_queue[n].status = "sent"
      => notification_queue[n].devices_reached > 0

(***************************************************************************)
(* The counter after a dispatch that reached a provider                    *)
(***************************************************************************)
\* the step in which sendNotification call c returns after at least one
\* provider send
ReturnsAfterSend(c) ==
  /\ call[c].pc # "done"
  /\ call'[c].pc = "done"
  /\ call'[c].entry = "sendNotification"
  /\ call'[c].providerCalls > 0

\* what the key had counted in the window that is open now
CountedInWindow(limits, t) ==
  IF limits.exists /\ t <= limits.resetTime THEN limits.count ELSE 0

C38_DisabledTypeIsSkipped ==
  \A c \in Slots :
    call[c].disabled =>
      /\ call[c].pc = "done"
      /\ call[c].outcome.reason = "type_disabled"
      /\ call[c].providerCalls = 0

(***************************************************************************)
(* The counts of a dispatch                                                *)
(***************************************************************************)
\* the adapters that token i of call c was given to
AdaptersOf(c, i) == {b \in Range(BucketOrder) : <<i, b>> \in call[c].routed}

\* C39: every active token resolved for the user is handed to exactly one
\* provider adapter during the dispatch, and the result of the dispatch
\* satisfies successful + failed = total.
C39_EveryTokenCountedOnce ==
  \A c \in Slots :
    (call[c].pc = "done" /\ call[c].outcome.success) =>
      /\ \A i \in 1..Len(call[c].tokens) : Cardinality(AdaptersOf(c, i)) = 1
      /\ call[c].results.successful + call[c].results.failed
           = call[c].results.total

(***************************************************************************)
(* Signed URLs of paths that differ outside the key's character class      *)
(***************************************************************************)
\* batchGenerateSignedUrls calls in one behaviour of SpecPaths
MaxPathOps == 3

NextPaths ==
  \/ BatchGenerateSignedUrls(SUBSET SpacedPaths \ {{}}, {DefaultExpiry},
                             MaxPathOps)
  \/ CacheTick

SpecPaths == InitCache /\ [][NextPaths]_vars

\* C40: the signed URL returned for a storage path was generated for that
\* same path: no path is served the per-path cache entry of another path.
C40_UrlIsOfItsPath ==
  (lastOp.op = "batchGenerateSignedUrls" /\ lastOp.outcome = "returned")
    => \A u \in lastOp.urls : u.signed_for = u.path

====
